---- MODULE Spec2Model ----
(***************************************************************************)
(* Pikoo room-state coordinator: the timer operations of the room store    *)
(* (startTimer, pauseTimer, resetTimer, skipPhase, addActivity) over the   *)
(* durable room store (getRoom / saveRoom), in both of its backings: the   *)
(* in-memory map, whose get returns the live stored object, and Redis,     *)
(* whose get returns a fresh deserialized copy.                            *)
(*                                                                         *)
(* Every async function is cut at its awaits.  One action is the           *)
(* completion of the awaited store operation together with the             *)
(* synchronous code that runs up to the next await.                        *)
(*                                                                         *)
(* The two backings are run side by side on the same calls, the same       *)
(* schedule and the same clock: the variables of a deployment map a       *)
(* backing to the state of the deployment that uses it.                    *)
(***************************************************************************)
EXTENDS Integers, Sequences, FiniteSets, TLC

(***************************************************************************)
(* Bounds of the model.                                                    *)
(***************************************************************************)
\* store calls dispatched in one behaviour of Spec (interleaved calls)
MaxCalls == 2
\* store calls dispatched in one behaviour of SpecSeq (one call at a time)
MaxSeqCalls == 2
\* skips dispatched in one behaviour of SpecSkip
MaxSkips == 8
\* JOIN_ROOM events handled in one behaviour of SpecJoin
MaxJoins == 2
\* events handled in one behaviour of SpecPresence
MaxEvents == 3
MaxRemoveEvents == 5
MaxCleanupJoins == 3
MaxGateEvents == 4
MaxOverlapEvents == 2
MaxEntryEvents == 4
MaxUnknownCalls == 3
MaxRenameEvents == 3
\* store calls dispatched in one behaviour of SpecDefault, and its clock
MaxDefaultCalls == 3
MaxElapses == 2
ElapseMs == 600000
MaxAutoEvents == 3
\* store calls dispatched in one behaviour of SpecSettings
MaxSettingsCalls == 3
\* chat and timer commands handled in one behaviour of SpecBuffers
MaxBufferEvents == 3
\* todo commands handled in one behaviour of SpecTodos
MaxTodoEvents == 4
\* timer commands clients send in one behaviour of SpecSync
MaxSyncEvents == 2
\* timer, chat and todo commands handled in one behaviour of SpecMixed
MaxMixedEvents == 2
\* the start and the auto skips handled in one behaviour of SpecExpiry
MaxExpiryEvents == 3
\* the timer and settings events handled in one behaviour of SpecKeep
MaxKeepEvents == 3
\* advances of the server clock in one behaviour
MaxTicks == 2
\* milliseconds by which the server clock advances at once, and by which
\* a client clock is ahead of or behind the server clock
TickMs == 600

(***************************************************************************)
(* Program constants.                                                      *)
(***************************************************************************)
MAX_HISTORY == 50
MAX_MESSAGES == 100
MAX_TODOS_PER_USER == 50
\* TODO_ADD: `if (text.length > 200) return`
MaxTodoLength == 200
\* SEND_MESSAGE: `if (text.length > 500) return`
MaxTextLength == 500
MsPerSec == 1000
AUTO_SKIP_GRACE_MS == 2000
\* removeParticipant: retries = 3
Retries == 3

\* the connections (socket ids) that call the store
Conns == {"s1", "s2", "s3"}

\* the two connections that call the timer operations
Pair == {"s1", "s2"}

Phases == {"focus", "break", "long_break"}

\* JavaScript null (phaseEndsAt of a paused timer)
Null == 0 - 1

\* an absent optional value (a null return, a missing guard)
None == <<>>
Some(x) == <<x>>

\* the two backings of getRoom / saveRoom
Backings == {"memory", "redis"}

\* the last instant the server clock takes; it starts at 1
LastInstant == 1 + TickMs * MaxTicks

\* payload timestamps sent when the server clock shows t: none (0, the
\* falsy one), or the Date.now() of a client whose clock is behind or ahead
Timestamps(t) == {0} \cup {u \in {t - TickMs, t + TickMs} : u >= 1}

(***************************************************************************)
(* types.ts                                                                *)
(***************************************************************************)
\* lastUpdatedAt is not set by getInitialTimerState: 0 stands for the
\* falsy undefined
getInitialTimerState(settings) ==
  [running |-> FALSE,
   phase |-> "focus",
   phaseEndsAt |-> Null,
   remainingSecWhenPaused |-> settings.focusSec,
   cycleCount |-> 0,
   lastUpdatedAt |-> 0]

\* getPhaseDuration returning the focus duration for every phase
getPhaseDurationFocus(phase, settings) == settings.focusSec

getPhaseDuration(phase, settings) ==
  CASE phase = "focus" -> settings.focusSec
    [] phase = "break" -> settings.breakSec
    [] phase = "long_break" -> settings.longBreakSec

\* the persistent user ids (uniqueId) of the clients
Users == {"u1", "u2"}

\* room.hostId of a room without host (null)
NoHost == "null"

\* room.userTodos without an entry for any user; an entry is modelled by
\* its userName, "" standing for no entry
NoTodos == [u \in Users |-> ""]

\* the todos and the activeTodoId of each entry of room.userTodos, as a new
\* entry has them (activeTodoId null)
NoLists == [u \in Users |-> [todos |-> <<>>, activeTodoId |-> None]]

\* createRoom(roomId, settings): the stored room after creation; POST /rooms
\* passes no hostId
createRoom(settings) ==
  [settings |-> settings,
   timer |-> getInitialTimerState(settings),
   hostId |-> NoHost,
   participants |-> <<>>,
   userTodos |-> NoTodos,
   lists |-> NoLists,
   messages |-> <<>>,
   history |-> <<>>]

(***************************************************************************)
(* Pure parts of the timer operations                                      *)
(***************************************************************************)
\* Math.ceil(a / b) for b > 0 and any integer a
Ceil(a, b) == 0 - ((0 - a) \div b)

Max(a, b) == IF a >= b THEN a ELSE b

\* timestamp || Date.now()
ActionTime(timestamp, t) == IF timestamp # 0 THEN timestamp ELSE t

\* IsStale with the comparison the wrong way round
IsStaleReversed(timer, actionTime) ==
  timer.lastUpdatedAt # 0 /\ actionTime > timer.lastUpdatedAt

\* room.timer.lastUpdatedAt && actionTime < room.timer.lastUpdatedAt
IsStale(timer, actionTime) ==
  timer.lastUpdatedAt # 0 /\ actionTime < timer.lastUpdatedAt

\* StartedTimer without the assignment to lastUpdatedAt
StartedTimerUnstamped(timer, t, actionTime) ==
  [timer EXCEPT !.running = TRUE,
                !.phaseEndsAt = t + timer.remainingSecWhenPaused * MsPerSec]

\* startTimer's assignments
StartedTimer(timer, t, actionTime) ==
  [timer EXCEPT !.running = TRUE,
                !.phaseEndsAt = t + timer.remainingSecWhenPaused * MsPerSec,
                !.lastUpdatedAt = actionTime]

\* RemainingSec with Math.floor in place of Math.ceil
RemainingSecFloor(phaseEndsAt, t) == Max(0, (phaseEndsAt - t) \div MsPerSec)

\* Math.max(0, Math.ceil((phaseEndsAt - now) / 1000))
RemainingSec(phaseEndsAt, t) == Max(0, Ceil(phaseEndsAt - t, MsPerSec))

\* PausedTimer without `room.timer.phaseEndsAt = null`
PausedTimerKeepsDeadline(timer, t, actionTime) ==
  [timer EXCEPT !.running = FALSE,
                !.remainingSecWhenPaused = RemainingSec(timer.phaseEndsAt, t),
                !.lastUpdatedAt = actionTime]

\* pauseTimer's assignments
PausedTimer(timer, t, actionTime) ==
  [timer EXCEPT !.running = FALSE,
                !.phaseEndsAt = Null,
                !.remainingSecWhenPaused = RemainingSec(timer.phaseEndsAt, t),
                !.lastUpdatedAt = actionTime]

\* ResetTimerState without `room.timer.running = false`
ResetTimerStateStillRunning(timer, settings, actionTime) ==
  [timer EXCEPT !.phaseEndsAt = Null,
                !.remainingSecWhenPaused = getPhaseDuration(timer.phase, settings),
                !.lastUpdatedAt = actionTime]

\* resetTimer's assignments
ResetTimerState(timer, settings, actionTime) ==
  [timer EXCEPT !.running = FALSE,
                !.phaseEndsAt = Null,
                !.remainingSecWhenPaused = getPhaseDuration(timer.phase, settings),
                !.lastUpdatedAt = actionTime]

\* NewCycleCount incrementing on a skip from any phase
NewCycleCountAlways(timer) == timer.cycleCount + 1

\* skipPhase: newCycleCount
NewCycleCount(timer) ==
  IF timer.phase = "focus" THEN timer.cycleCount + 1 ELSE timer.cycleCount

\* NextPhase testing the cycle count before the increment
NextPhaseOldCount(timer, settings) ==
  IF timer.phase = "focus"
    THEN IF timer.cycleCount % settings.longBreakEvery = 0
           THEN "long_break"
           ELSE "break"
    ELSE "focus"

\* skipPhase: nextPhase
NextPhase(timer, settings) ==
  IF timer.phase = "focus"
    THEN IF NewCycleCount(timer) % settings.longBreakEvery = 0
           THEN "long_break"
           ELSE "break"
    ELSE "focus"

\* skipPhase's assignments
SkippedTimer(timer, settings, nextPhase, newCycleCount, actionTime) ==
  [timer EXCEPT !.phase = nextPhase,
                !.cycleCount = newCycleCount,
                !.running = FALSE,
                !.phaseEndsAt = Null,
                !.remainingSecWhenPaused = getPhaseDuration(nextPhase, settings),
                !.lastUpdatedAt = actionTime]

\* GuardRejects comparing the phase only
GuardRejectsPhaseOnly(guard, timer) ==
  /\ guard # None
  /\ timer.phase # guard[1].expectedPhase

\* GuardRejects of a skipPhase that does not look at its guard
GuardRejectsNever(guard, timer) == FALSE

\* skipPhase's guard: TRUE when the skip is rejected
GuardRejects(guard, timer) ==
  /\ guard # None
  /\ \/ timer.phase # guard[1].expectedPhase
     \/ timer.running # guard[1].expectedRunning
     \/ timer.phaseEndsAt # guard[1].expectedPhaseEndsAt

\* the guard the gateway builds from a timer it read
GuardOf(timer) ==
  Some([expectedPhase |-> timer.phase,
        expectedPhaseEndsAt |-> timer.phaseEndsAt,
        expectedRunning |-> timer.running])

\* { ...room.settings, ...settings }: the keys of the payload win
Merge(settings, payload) == payload @@ settings

\* UpdatedRoom recomputing remainingSecWhenPaused of a running timer too
UpdatedRoomAlways(r, payload) ==
  LET settings == Merge(r.settings, payload)
  IN [r EXCEPT !.settings = settings,
               !.timer.remainingSecWhenPaused =
                  getPhaseDuration(r.timer.phase, settings)]

\* updateSettings' assignments to room
UpdatedRoom(r, payload) ==
  LET settings == Merge(r.settings, payload)
  IN [r EXCEPT !.settings = settings,
               !.timer.remainingSecWhenPaused =
                  IF ~r.timer.running
                    THEN getPhaseDuration(r.timer.phase, settings)
                    ELSE r.timer.remainingSecWhenPaused]

\* room.history.unshift(log), cut to MAX_HISTORY
Unshift(history, log) ==
  LET h == <<log>> \o history
  IN IF Len(h) > MAX_HISTORY THEN SubSeq(h, 1, MAX_HISTORY) ELSE h

\* the details string of the activity entry
Details(op, timer, nextPhase) ==
  CASE op = "reset" -> <<>>
    [] op = "skip" -> <<"Skipped", timer.phase, nextPhase>>
    [] OTHER -> <<timer.phase>>

ActivityTypeOf(op) ==
  CASE op = "start" -> "timer_start"
    [] op = "pause" -> "timer_pause"
    [] op = "reset" -> "timer_reset"
    [] op = "skip" -> "timer_skip"

(***************************************************************************)
(* State                                                                   *)
(***************************************************************************)
VARIABLES
  deployed,   \* the backings whose deployment is run
  sockets,    \* per connection: "fresh", "connected" or "gone" (io.sockets.sockets)
  io,         \* per backing: the broadcast group of the room and the events emitted
  session,    \* per backing and connection: currentRoomId, currentUserName, currentUniqueId
  store,      \* per backing: the stored room (one room id, created at Init)
  stray,      \* per backing: what is stored under a room id that createRoom
              \* never returned (None: no record)
  pc,         \* per backing and connection: the await the call is suspended at
  frame,      \* per backing and connection: the locals of the call in flight
  room,       \* per backing and connection: `room` of the timer operation
  actRoom,    \* per backing and connection: `room` of addActivity
  ret,        \* per backing and connection: the value the call returned
  pre,        \* per backing and connection: the stored room at the call
  behind,     \* per backing and connection: the handler that was dispatched
              \* while the one above was suspended (pc, frame, room, ...)
  logs,       \* per backing: activity log ids generated so far
  now,        \* Date.now() of the server
  callers,    \* the connections that dispatch calls
  budget,     \* calls that may still be dispatched
  clients     \* per backing and connection: the page of the client (its
              \* local room and the events on their way to it), None
              \* when the page is not followed

vars ==
  <<deployed, sockets, io, session, store, stray, pc, frame, room, actRoom, ret,
    pre, behind, logs, now, callers, budget, clients>>

\* collab-mode settings of a created room with small durations (seconds)
RoomSettings(longBreakEvery) ==
  [focusSec |-> 1, breakSec |-> 2, longBreakSec |-> 3,
   longBreakEvery |-> longBreakEvery, mode |-> "collab"]

\* the locals of a timer operation; now is 0 until `const now = Date.now()`
NoFrame ==
  [op |-> "none", timestamp |-> 0, actionTime |-> 0, details |-> <<>>,
   nextPhase |-> "focus", newCycleCount |-> 0, guard |-> None, now |-> 0,
   settings |-> None,
   \* the locals of the presence handlers and operations
   name |-> "", uniqueId |-> "", participantId |-> "", attempt |-> 0,
   beforeLen |-> 0, beforeLive |-> FALSE, stale |-> {}, logType |-> "none",
   \* the events the handler has emitted
   sent |-> {},
   \* where a gateway handler of a timer or settings command stands
   gate |-> "none",
   \* TIMER_SKIP: payload.source, and Date.now() of the handler's check
   source |-> "manual", checkedAt |-> 0,
   \* SEND_MESSAGE: the ChatMessage the handler built
   message |-> None,
   \* the payload of a todo command
   todo |-> None]

\* no second handler of the connection is in flight
NoHandler ==
  [pc |-> "idle", frame |-> NoFrame, room |-> None, actRoom |-> None,
   ret |-> None, pre |-> None]

\* the locals of a connection's handlers before it joined
NoSession == [roomId |-> FALSE, userName |-> "Anonymous", uniqueId |-> ""]

\* no socket has joined the broadcast group of the room
NoRooms == [rooms |-> {}]

\* the server has started and the room has been created; Date.now() is t
StartedAt(settingsSet, who, calls, t) ==
  /\ \E settings \in settingsSet :
       store = [b \in Backings |-> createRoom(settings)]
  /\ sockets = [c \in Conns |-> "fresh"]
  /\ io = [b \in Backings |-> NoRooms]
  /\ session = [b \in Backings |-> [c \in Conns |-> NoSession]]
  /\ pc = [b \in Backings |-> [c \in Conns |-> "idle"]]
  /\ frame = [b \in Backings |-> [c \in Conns |-> NoFrame]]
  /\ room = [b \in Backings |-> [c \in Conns |-> None]]
  /\ actRoom = [b \in Backings |-> [c \in Conns |-> None]]
  /\ ret = [b \in Backings |-> [c \in Conns |-> None]]
  /\ pre = [b \in Backings |-> [c \in Conns |-> None]]
  /\ behind = [b \in Backings |-> [c \in Conns |-> NoHandler]]
  /\ stray = [b \in Backings |-> None]
  /\ clients = [b \in Backings |-> [c \in Conns |-> None]]
  /\ logs = [b \in Backings |-> 0]
  /\ now = t
  /\ callers = who
  /\ budget = calls

Started(settingsSet, who, calls) == StartedAt(settingsSet, who, calls, 1)

\* both deployments are run side by side
InitWith(settingsSet, who, calls) ==
  /\ deployed = Backings
  /\ Started(settingsSet, who, calls)

\* one deployment is run, on either backing
InitOne(settingsSet, who, calls) ==
  /\ deployed \in {{"memory"}, {"redis"}}
  /\ Started(settingsSet, who, calls)

\* the deployment on backing b
World(b) ==
  [store |-> store[b], pc |-> pc[b], frame |-> frame[b], room |-> room[b],
   actRoom |-> actRoom[b], ret |-> ret[b], pre |-> pre[b], logs |-> logs[b],
   io |-> io[b], session |-> session[b], behind |-> behind[b],
   stray |-> stray[b], clients |-> clients[b]]

\* both deployments take the step `next` maps them to
Becomes(next) ==
  LET world == [b \in Backings |-> IF b \in deployed THEN next[b] ELSE World(b)]
  IN /\ store' = [b \in Backings |-> world[b].store]
     /\ pc' = [b \in Backings |-> world[b].pc]
     /\ frame' = [b \in Backings |-> world[b].frame]
     /\ room' = [b \in Backings |-> world[b].room]
     /\ actRoom' = [b \in Backings |-> world[b].actRoom]
     /\ ret' = [b \in Backings |-> world[b].ret]
     /\ pre' = [b \in Backings |-> world[b].pre]
     /\ logs' = [b \in Backings |-> world[b].logs]
     /\ io' = [b \in Backings |-> world[b].io]
     /\ session' = [b \in Backings |-> world[b].session]
     /\ behind' = [b \in Backings |-> world[b].behind]
     /\ stray' = [b \in Backings |-> world[b].stray]
     /\ clients' = [b \in Backings |-> world[b].clients]
     /\ UNCHANGED deployed

(***************************************************************************)
(* getRoom / saveRoom                                                      *)
(***************************************************************************)
\* what `room` of connection c holds after `room = await getRoom(roomId)`:
\* JSON.parse gives a copy of its own, memoryStore.get the stored object
getRoom(b, w) == IF b = "redis" THEN Some(w.store) ELSE None

\* `room` as the timer operation of connection c sees it
RoomOf(b, w, c) == IF b = "redis" THEN w.room[c][1] ELSE w.store

\* the stored room after saveRoom(r): setex replaces the stored document,
\* memoryStore.set puts the stored object, which r is, back
saveRoom(b, w, r) == IF b = "redis" THEN r ELSE w.store

(***************************************************************************)
(* The timer operations up to their call of addActivity                    *)
(***************************************************************************)
Enter(b, w, c, op, timestamp, guard, t) ==
  LET nextPhase == NextPhase(w.store.timer, w.store.settings)
  IN [w EXCEPT
        !.frame[c] = [NoFrame EXCEPT
                        !.op = op,
                        !.timestamp = timestamp,
                        !.actionTime = ActionTime(timestamp, t),
                        !.details = Details(op, w.store.timer, nextPhase),
                        !.nextPhase = nextPhase,
                        !.newCycleCount = NewCycleCount(w.store.timer),
                        !.guard = guard],
        !.room[c] = getRoom(b, w),
        !.pre[c] = Some(w.store),
        !.pc[c] = "addActivity_get"]

\* skipPhase returns null before anything else when its guard fails
EnterSkip(b, w, c, timestamp, guard, t) ==
  IF GuardRejects(guard, w.store.timer)
    THEN [w EXCEPT
            !.frame[c] = [NoFrame EXCEPT !.op = "skip",
                                         !.timestamp = timestamp,
                                         !.guard = guard],
            !.pre[c] = Some(w.store),
            !.ret[c] = None,
            !.pc[c] = "done"]
    ELSE Enter(b, w, c, "skip", timestamp, guard, t)

\* connection c may dispatch a call
Free(c) ==
  /\ c \in callers
  /\ budget > 0
  /\ \A b \in Backings : pc[b][c] = "idle"

Dispatch(next) ==
  /\ Becomes(next)
  /\ budget' = budget - 1
  /\ UNCHANGED <<now, callers, sockets>>

startTimer(c) ==
  /\ Free(c)
  /\ \E timestamp \in Timestamps(now) :
       Dispatch([b \in Backings |->
                  Enter(b, World(b), c, "start", timestamp, None, now)])

pauseTimer(c) ==
  /\ Free(c)
  /\ \E timestamp \in Timestamps(now) :
       Dispatch([b \in Backings |->
                  Enter(b, World(b), c, "pause", timestamp, None, now)])

resetTimer(c) ==
  /\ Free(c)
  /\ \E timestamp \in Timestamps(now) :
       Dispatch([b \in Backings |->
                  Enter(b, World(b), c, "reset", timestamp, None, now)])

\* the guards a caller passes: none, the guard built from a stored timer,
\* or that guard with one field off
Guards ==
  {None} \cup UNION {
    LET g == GuardOf(store[b].timer)[1]
    IN {Some(g),
        Some([g EXCEPT !.expectedPhase =
                IF g.expectedPhase = "focus" THEN "break" ELSE "focus"]),
        Some([g EXCEPT !.expectedRunning = ~g.expectedRunning]),
        Some([g EXCEPT !.expectedPhaseEndsAt =
                IF g.expectedPhaseEndsAt = Null THEN now ELSE Null])}
    : b \in Backings}

\* a start, pause or reset without payload timestamp
timerUnstamped(c) ==
  /\ Free(c)
  /\ \E op \in {"start", "pause", "reset"} :
       Dispatch([b \in Backings |-> Enter(b, World(b), c, op, 0, None, now)])

\* a skip without guard and without payload timestamp
skipPhaseUnstamped(c) ==
  /\ Free(c)
  /\ Dispatch([b \in Backings |-> EnterSkip(b, World(b), c, 0, None, now)])

skipPhase(c) ==
  /\ Free(c)
  /\ \E timestamp \in Timestamps(now), guard \in Guards :
       Dispatch([b \in Backings |->
                  EnterSkip(b, World(b), c, timestamp, guard, now)])

(***************************************************************************)
(* updateSettings                                                          *)
(***************************************************************************)
\* the settings a client sends: a shorter focus, or a longer focus with a
\* shorter break
SettingsParts ==
  {[focusSec |-> 1], [focusSec |-> 3, breakSec |-> 1]}

\* the UPDATE_SETTINGS payloads sent when the server clock shows t:
\* Partial<RoomSettings> & { timestamp?: number }
Payloads(t) ==
  SettingsParts \cup
    {part @@ [timestamp |-> u] :
       part \in SettingsParts, u \in Timestamps(t) \ {0}}

\* payload.timestamp, 0 when the payload carries none
TimestampOf(payload) ==
  IF "timestamp" \in DOMAIN payload THEN payload.timestamp ELSE 0

\* getRoom of updateSettings, then the code up to its saveRoom; the
\* gateway passes the whole payload as `settings`
EnterSettings(b, w, c, payload) ==
  LET updated == UpdatedRoom(w.store, payload)
  IN [w EXCEPT
        !.frame[c] = [NoFrame EXCEPT !.op = "settings",
                                     !.timestamp = TimestampOf(payload),
                                     !.settings = payload],
        !.store = IF b = "redis" THEN w.store ELSE updated,
        !.room[c] = IF b = "redis" THEN Some(updated) ELSE None,
        !.pre[c] = Some(w.store),
        !.pc[c] = "saveRoom"]

updateSettings(c) ==
  /\ Free(c)
  /\ \E payload \in Payloads(now) :
       Dispatch([b \in Backings |-> EnterSettings(b, World(b), c, payload)])

(***************************************************************************)
(* addActivity                                                             *)
(***************************************************************************)
ActivityLog(c, f, id, t) ==
  [id |-> id, type |-> ActivityTypeOf(f.op), userId |-> c,
   timestamp |-> t, details |-> f.details]

\* getRoom of addActivity, then the code up to its saveRoom
AddActivityGet(b, w, c, t) ==
  IF w.pc[c] # "addActivity_get" THEN w
  ELSE
    LET log == ActivityLog(c, w.frame[c], w.logs + 1, t)
        logged == [w.store EXCEPT !.history = Unshift(w.store.history, log)]
    IN [w EXCEPT
          !.actRoom[c] = IF b = "redis" THEN Some(logged) ELSE None,
          !.store = IF b = "redis" THEN w.store ELSE logged,
          !.logs = w.logs + 1,
          !.pc[c] = "addActivity_save"]

addActivityGet(c) ==
  /\ \E b \in Backings : pc[b][c] = "addActivity_get"
  /\ Becomes([b \in Backings |-> AddActivityGet(b, World(b), c, now)])
  /\ UNCHANGED <<now, callers, budget, sockets>>

(***************************************************************************)
(* The timer operations after addActivity                                  *)
(***************************************************************************)
\* ReturnsEarly without pauseTimer's `if (!room.timer.running) return`
ReturnsEarlyStaleOnly(f, timer) == IsStale(timer, f.actionTime)

\* the operation returns room.timer right after addActivity, without a write
ReturnsEarly(f, timer) ==
  \/ IsStale(timer, f.actionTime)
  \/ f.op = "pause" /\ ~timer.running

\* the timer the operation assigns when it does not return early
Assigned(f, r, t) ==
  CASE f.op = "start" -> StartedTimer(r.timer, t, f.actionTime)
    [] f.op = "pause" -> PausedTimer(r.timer, t, f.actionTime)
    [] f.op = "reset" -> ResetTimerState(r.timer, r.settings, f.actionTime)
    [] f.op = "skip" -> SkippedTimer(r.timer, r.settings, f.nextPhase,
                                     f.newCycleCount, f.actionTime)

\* saveRoom of addActivity completes; the timer operation resumes with the
\* conflict check and its assignments, up to its own saveRoom
AfterActivity(b, w, c, t) ==
  IF w.pc[c] # "addActivity_save" THEN w
  ELSE
    LET saved == IF b = "redis" THEN saveRoom(b, w, w.actRoom[c][1]) ELSE w.store
        r == RoomOf(b, w, c)
        assigned == [r EXCEPT !.timer = Assigned(w.frame[c], r, t)]
    IN IF ReturnsEarly(w.frame[c], r.timer)
         THEN [w EXCEPT !.store = saved,
                        !.actRoom[c] = None,
                        !.ret[c] = Some(r.timer),
                        !.pc[c] = "done"]
         ELSE [w EXCEPT !.store = IF b = "redis" THEN saved ELSE assigned,
                        !.room[c] = IF b = "redis" THEN Some(assigned) ELSE None,
                        !.frame[c].now = t,
                        !.actRoom[c] = None,
                        !.pc[c] = "saveRoom"]

afterActivity(c) ==
  /\ \E b \in Backings : pc[b][c] = "addActivity_save"
  /\ Becomes([b \in Backings |-> AfterActivity(b, World(b), c, now)])
  /\ UNCHANGED <<now, callers, budget, sockets>>

\* saveRoom of the operation completes; a timer operation returns
\* room.timer, updateSettings room.settings
Saved(b, w, c) ==
  IF w.pc[c] # "saveRoom" THEN w
  ELSE [w EXCEPT !.store = saveRoom(b, w, RoomOf(b, w, c)),
                 !.ret[c] = IF w.frame[c].op = "settings"
                              THEN Some(RoomOf(b, w, c).settings)
                              ELSE Some(RoomOf(b, w, c).timer),
                 !.pc[c] = "done"]

saved(c) ==
  /\ \E b \in Backings : pc[b][c] = "saveRoom"
  /\ Becomes([b \in Backings |-> Saved(b, World(b), c)])
  /\ UNCHANGED <<now, callers, budget, sockets>>

\* the caller has taken the result; the connection is free for its next call
Returned(w, c) ==
  [w EXCEPT !.pc[c] = "idle", !.frame[c] = NoFrame, !.room[c] = None,
            !.ret[c] = None, !.pre[c] = None]

returned(c) ==
  /\ \A b \in deployed : pc[b][c] = "done"
  /\ \A b \in deployed : frame[b][c].gate \notin {"pending", "reading"}
  /\ Becomes([b \in Backings |-> Returned(World(b), c)])
  /\ UNCHANGED <<now, callers, budget, sockets>>

\* the server clock advances
Tick ==
  /\ now + TickMs <= LastInstant
  /\ now' = now + TickMs
  /\ UNCHANGED <<deployed, sockets, io, session, store, stray, pc, frame, room,
                 actRoom, ret, pre, behind, logs, callers, budget, clients>>

(***************************************************************************)
(* Participants: pure parts                                                *)
(***************************************************************************)
\* String.prototype.toLowerCase on the names the clients send
ToLowerCase(name) ==
  CASE name = "Ann" -> "ann"
    [] name = "Anonymous" -> "anonymous"
    [] OTHER -> name

\* the socket ids of the stored participants
Ids(participants) == {participants[i].id : i \in 1..Len(participants)}

\* room.participants.find(p => p.id === socketId)
\* ExistingSocket that finds no entry
ExistingSocketNever(participants, socketId) == FALSE

ExistingSocket(participants, socketId) == socketId \in Ids(participants)

\* NameTaken looking for the name among the entries of the same user
NameTakenSameUser(participants, name, uniqueId) ==
  \E i \in 1..Len(participants) :
    /\ ToLowerCase(participants[i].name) = ToLowerCase(name)
    /\ participants[i].uniqueId = uniqueId

\* room.participants.find(p => p.name.toLowerCase() === name.toLowerCase()
\*                              && p.uniqueId !== uniqueId)
NameTaken(participants, name, uniqueId) ==
  \E i \in 1..Len(participants) :
    /\ ToLowerCase(participants[i].name) = ToLowerCase(name)
    /\ participants[i].uniqueId # uniqueId

\* room.participants.filter(p => !drop.has(p.id))
Without(participants, drop) ==
  SelectSeq(participants, LAMBDA p : p.id \notin drop)

\* Renamed giving the name to every entry
RenamedAll(participants, uniqueId, newName) ==
  [i \in 1..Len(participants) |-> [participants[i] EXCEPT !.name = newName]]

\* room.participants.map(p => p.uniqueId === uniqueId ? {...p, name} : p)
Renamed(participants, uniqueId, newName) ==
  IF participants = <<>> THEN <<>>
  ELSE [i \in 1..Len(participants) |->
          IF participants[i].uniqueId = uniqueId
            THEN [participants[i] EXCEPT !.name = newName]
            ELSE participants[i]]

\* name || "Anonymous"
NameOrAnonymous(name) == IF name = "" THEN "Anonymous" ELSE name

(***************************************************************************)
(* Writes of an operation to its `room`                                    *)
(***************************************************************************)
\* The operation of connection c has assigned r to its `room`.  On Redis
\* `room` is a copy the operation holds until its saveRoom.  On the
\* in-memory map `room` is the stored object: the assignment is visible at
\* once, also through the arrays other handlers still hold: a push
\* ("push") grows the array a DISCONNECT handler holds as
\* participantsBefore, a filter or map ("replace") puts a new array in
\* its place, any other assignment ("keep") leaves the array alone.
Assign(b, w, c, r, how) ==
  IF b = "redis" THEN [w EXCEPT !.room[c] = Some(r)]
  ELSE [w EXCEPT
          !.store = r,
          !.room[c] = None,
          !.frame = [d \in Conns |->
                       IF w.frame[d].beforeLive /\ how = "push"
                         THEN [w.frame[d] EXCEPT !.beforeLen = @ + 1]
                       ELSE IF w.frame[d].beforeLive /\ how = "replace"
                         THEN [w.frame[d] EXCEPT !.beforeLive = FALSE]
                       ELSE w.frame[d]]]

\* await saveRoom(room) of the operation of connection c has completed
Save(b, w, c) == [w EXCEPT !.store = saveRoom(b, w, RoomOf(b, w, c))]

\* socket.emit(SOCKET_EVENTS.ERROR, { message, code })
Error(w, c, code) == [w EXCEPT !.frame[c].sent = @ \cup {<<code, "socket">>}]

\* the handler of connection c has emitted `event` to the socket ("socket")
\* or to the group of the room ("room")
Emit(w, c, event, to) == [w EXCEPT !.frame[c].sent = @ \cup {<<event, to>>}]

(***************************************************************************)
(* JOIN_ROOM: addParticipant, ensureUserTodos, cleanupStaleParticipants    *)
(***************************************************************************)
\* io.on("connection"): the socket enters the registry
connection(c) ==
  /\ c \in callers
  /\ sockets[c] = "fresh"
  /\ sockets' = [sockets EXCEPT ![c] = "connected"]
  /\ UNCHANGED <<deployed, io, session, store, stray, pc, frame, room, actRoom,
                 ret, pre, behind, logs, now, callers, budget, clients>>

\* a connected socket whose last event has been handled sends the next one
Ready(c) == Free(c) /\ sockets[c] = "connected"

\* the names a JOIN_ROOM payload carries ("" for none)
JoinNames == {"", "Ann", "ann", "Bob"}

\* the handler up to addParticipant's getRoom (its own getRoom finds the room)
EnterJoin(w, c, name, uniqueId) ==
  [w EXCEPT !.frame[c] = [NoFrame EXCEPT !.op = "join",
                                        !.name = NameOrAnonymous(name),
                                        !.uniqueId = uniqueId,
                                        !.logType = "join"],
            !.pre[c] = Some(w.store),
            !.ret[c] = None,
            !.pc[c] = "addParticipant_get"]

JOIN_ROOM(c) ==
  /\ Ready(c)
  /\ \E name \in JoinNames, uniqueId \in Users :
       Dispatch([b \in Backings |-> EnterJoin(World(b), c, name, uniqueId)])

\* JOIN_ROOM with a room id createRoom never returned: the handler up to
\* its getRoom
EnterJoinUnknown(w, c, name, uniqueId) ==
  [w EXCEPT !.frame[c] = [NoFrame EXCEPT !.op = "join",
                                        !.name = NameOrAnonymous(name),
                                        !.uniqueId = uniqueId,
                                        !.logType = "join"],
            !.pre[c] = Some(w.store),
            !.ret[c] = None,
            !.pc[c] = "join_get"]

JOIN_ROOM_unknown(c) ==
  /\ Ready(c)
  /\ \E name \in JoinNames, uniqueId \in Users :
       Dispatch([b \in Backings |-> EnterJoinUnknown(World(b), c, name, uniqueId)])

\* `room = await getRoom(roomId)` of the handler: without a record the
\* handler emits ERROR "Room not found" and returns
JoinGet(w, c) ==
  IF w.stray = None
    THEN [Error(w, c, "ERROR") EXCEPT
            !.ret[c] = Some([success |-> FALSE]),
            !.pc[c] = "done"]
    ELSE [w EXCEPT !.pc[c] = "addParticipant_get"]

joinGet(c) ==
  /\ \E b \in Backings : pc[b][c] = "join_get"
  /\ Becomes([b \in Backings |->
               IF pc[b][c] = "join_get" THEN JoinGet(World(b), c) ELSE World(b)])
  /\ UNCHANGED <<now, callers, budget, sockets>>

\* addParticipant has returned success: socket.join(roomId), the closure
\* variables are set and ensureUserTodos is called
JoinedGroup(w, c) ==
  [w EXCEPT !.io.rooms = @ \cup {c},
            !.session[c] = [roomId |-> TRUE,
                            userName |-> w.frame[c].name,
                            uniqueId |-> w.frame[c].uniqueId],
            !.room[c] = None,
            !.pc[c] = "ensureUserTodos_get"]

\* AddParticipantGet with a handler that joins the group although the name
\* is taken
AddParticipantGetJoinsAnyway(b, w, c) ==
  LET f == w.frame[c]
      r == w.store
      pushed == [r EXCEPT !.participants =
                   Append(@, [id |-> c, uniqueId |-> f.uniqueId, name |-> f.name])]
  IN IF ExistingSocket(r.participants, c)
       THEN JoinedGroup(w, c)
     ELSE IF NameTaken(r.participants, f.name, f.uniqueId)
       THEN JoinedGroup(Error(w, c, "NAME_TAKEN"), c)
     ELSE [Assign(b, w, c, pushed, "push") EXCEPT !.pc[c] = "addParticipant_save"]

\* getRoom of addParticipant, then the code up to its saveRoom
AddParticipantGet(b, w, c) ==
  LET f == w.frame[c]
      r == w.store
      pushed == [r EXCEPT !.participants =
                   Append(@, [id |-> c, uniqueId |-> f.uniqueId, name |-> f.name])]
  IN IF ExistingSocket(r.participants, c)
       THEN JoinedGroup(w, c)
     ELSE IF NameTaken(r.participants, f.name, f.uniqueId)
       THEN [Error(w, c, "NAME_TAKEN") EXCEPT
               !.ret[c] = Some([success |-> FALSE]),
               !.pc[c] = "done"]
     ELSE [Assign(b, w, c, pushed, "push") EXCEPT !.pc[c] = "addParticipant_save"]

addParticipantGet(c) ==
  /\ \E b \in Backings : pc[b][c] = "addParticipant_get"
  /\ Becomes([b \in Backings |->
               IF pc[b][c] = "addParticipant_get" THEN AddParticipantGet(b, World(b), c) ELSE World(b)])
  /\ UNCHANGED <<now, callers, budget, sockets>>

\* AddParticipantSaved logging anonymous participants too
AddParticipantSavedLogsAll(b, w, c) ==
  [Save(b, w, c) EXCEPT !.pc[c] = "log_get"]

\* saveRoom of addParticipant completes; a named participant is logged
AddParticipantSaved(b, w, c) ==
  IF w.frame[c].name # "Anonymous"
    THEN [Save(b, w, c) EXCEPT !.pc[c] = "log_get"]
    ELSE JoinedGroup(Save(b, w, c), c)

addParticipantSaved(c) ==
  /\ \E b \in Backings : pc[b][c] = "addParticipant_save"
  /\ Becomes([b \in Backings |->
               IF pc[b][c] = "addParticipant_save" THEN AddParticipantSaved(b, World(b), c) ELSE World(b)])
  /\ UNCHANGED <<now, callers, budget, sockets>>

\* getRoom of ensureUserTodos, then the code up to its saveRoom
EnsureUserTodosGet(b, w, c) ==
  LET s == w.session[c]
      r == [w.store EXCEPT !.userTodos[s.uniqueId] = s.userName]
  IN [Assign(b, w, c, r, "keep") EXCEPT !.pc[c] = "ensureUserTodos_save"]

ensureUserTodosGet(c) ==
  /\ \E b \in Backings : pc[b][c] = "ensureUserTodos_get"
  /\ Becomes([b \in Backings |->
               IF pc[b][c] = "ensureUserTodos_get" THEN EnsureUserTodosGet(b, World(b), c) ELSE World(b)])
  /\ UNCHANGED <<now, callers, budget, sockets>>

\* saveRoom of ensureUserTodos completes; the handler reads the room again
EnsureUserTodosSaved(b, w, c) ==
  [Save(b, w, c) EXCEPT !.room[c] = None, !.pc[c] = "join_getRoom"]

ensureUserTodosSaved(c) ==
  /\ \E b \in Backings : pc[b][c] = "ensureUserTodos_save"
  /\ Becomes([b \in Backings |->
               IF pc[b][c] = "ensureUserTodos_save" THEN EnsureUserTodosSaved(b, World(b), c) ELSE World(b)])
  /\ UNCHANGED <<now, callers, budget, sockets>>

\* `room = await getRoom(roomId)` before the cleanup: cleanupStaleParticipants
\* is called
JoinGotRoom(b, w, c) == [w EXCEPT !.pc[c] = "cleanup_get"]

joinGotRoom(c) ==
  /\ \E b \in Backings : pc[b][c] = "join_getRoom"
  /\ Becomes([b \in Backings |->
               IF pc[b][c] = "join_getRoom" THEN JoinGotRoom(b, World(b), c) ELSE World(b)])
  /\ UNCHANGED <<now, callers, budget, sockets>>

\* getRoom of cleanupStaleParticipants; io.in(roomId).fetchSockets() is called
CleanupGet(b, w, c) ==
  [w EXCEPT !.room[c] = getRoom(b, w), !.pc[c] = "cleanup_fetch"]

cleanupGet(c) ==
  /\ \E b \in Backings : pc[b][c] = "cleanup_get"
  /\ Becomes([b \in Backings |->
               IF pc[b][c] = "cleanup_get" THEN CleanupGet(b, World(b), c) ELSE World(b)])
  /\ UNCHANGED <<now, callers, budget, sockets>>

\* the sockets fetchSockets returns: those of the group that the registry holds
SocketsInRoom(w, registry) == {d \in w.io.rooms : registry[d] = "connected"}

\* VerifiedStale that looks at the broadcast group only
VerifiedStaleNotInRoom(participants, connectedSocketIds, registry) ==
  {d \in Ids(participants) : d \notin connectedSocketIds}

\* verifiedStaleParticipants: not in the group, and not a connected socket
\* of the registry
VerifiedStale(participants, connectedSocketIds, registry) ==
  {d \in Ids(participants) :
     d \notin connectedSocketIds /\ registry[d] # "connected"}

\* fetchSockets completes: the stale participants are filtered out and the
\* room is saved, or nothing is written
CleanupFetched(b, w, c, registry) ==
  LET r == RoomOf(b, w, c)
      stale == VerifiedStale(r.participants, SocketsInRoom(w, registry), registry)
      kept == [r EXCEPT !.participants = Without(r.participants, stale)]
  IN IF stale # {}
       THEN [Assign(b, w, c, kept, "replace") EXCEPT
               !.frame[c].stale = stale,
               !.pc[c] = "cleanup_save"]
       ELSE [w EXCEPT !.room[c] = None, !.pc[c] = "join_emit"]

cleanupFetched(c) ==
  /\ \E b \in Backings : pc[b][c] = "cleanup_fetch"
  /\ Becomes([b \in Backings |->
               IF pc[b][c] = "cleanup_fetch" THEN CleanupFetched(b, World(b), c, sockets) ELSE World(b)])
  /\ UNCHANGED <<now, callers, budget, sockets>>

\* saveRoom of the cleanup completes: PARTICIPANTS_UPDATE is broadcast
CleanupSaved(b, w, c) ==
  [Emit(Save(b, w, c), c, "CLEANUP_PARTICIPANTS_UPDATE", "room") EXCEPT
     !.room[c] = None,
     !.pc[c] = "join_emit"]

cleanupSaved(c) ==
  /\ \E b \in Backings : pc[b][c] = "cleanup_save"
  /\ Becomes([b \in Backings |->
               IF pc[b][c] = "cleanup_save" THEN CleanupSaved(b, World(b), c) ELSE World(b)])
  /\ UNCHANGED <<now, callers, budget, sockets>>

\* the room is read once more and sent: ROOM_STATE to the socket, and
\* ROOM_STATE or PARTICIPANTS_UPDATE to the group
JoinEmit(b, w, c) ==
  LET toSocket == Emit(w, c, "ROOM_STATE", "socket")
      toRoom == IF w.frame[c].name # "Anonymous"
                  THEN Emit(toSocket, c, "ROOM_STATE", "room")
                  ELSE Emit(toSocket, c, "PARTICIPANTS_UPDATE", "room")
  IN [toRoom EXCEPT !.ret[c] = Some([success |-> TRUE]), !.pc[c] = "done"]

joinEmit(c) ==
  /\ \E b \in Backings : pc[b][c] = "join_emit"
  /\ Becomes([b \in Backings |->
               IF pc[b][c] = "join_emit" THEN JoinEmit(b, World(b), c) ELSE World(b)])
  /\ UNCHANGED <<now, callers, budget, sockets>>

(***************************************************************************)
(* addActivity called by the presence handlers                             *)
(***************************************************************************)
\* getRoom of addActivity, then the code up to its saveRoom
LogGet(b, w, c, t) ==
  LET f == w.frame[c]
      log == [id |-> w.logs + 1, type |-> f.logType, userId |-> f.uniqueId,
              timestamp |-> t, details |-> <<>>]
      logged == [w.store EXCEPT !.history = Unshift(w.store.history, log)]
  IN [w EXCEPT
        !.actRoom[c] = IF b = "redis" THEN Some(logged) ELSE None,
        !.store = IF b = "redis" THEN w.store ELSE logged,
        !.logs = w.logs + 1,
        !.pc[c] = "log_save"]

logGet(c) ==
  /\ \E b \in Backings : pc[b][c] = "log_get"
  /\ Becomes([b \in Backings |->
               IF pc[b][c] = "log_get" THEN LogGet(b, World(b), c, now) ELSE World(b)])
  /\ UNCHANGED <<now, callers, budget, sockets>>

\* saveRoom of addActivity completes; the caller goes on
LogSaved(b, w, c) ==
  LET written == [w EXCEPT
                    !.store = IF b = "redis"
                                THEN saveRoom(b, w, w.actRoom[c][1])
                                ELSE w.store,
                    !.actRoom[c] = None]
  IN CASE w.frame[c].op = "join" -> JoinedGroup(written, c)
       [] w.frame[c].op = "rename" -> [written EXCEPT !.pc[c] = "updateName_getRoom"]
       [] w.frame[c].op = "disconnect" -> [written EXCEPT !.pc[c] = "disconnect_emit"]

logSaved(c) ==
  /\ \E b \in Backings : pc[b][c] = "log_save"
  /\ Becomes([b \in Backings |->
               IF pc[b][c] = "log_save" THEN LogSaved(b, World(b), c) ELSE World(b)])
  /\ UNCHANGED <<now, callers, budget, sockets>>

(***************************************************************************)
(* removeParticipant and the disconnect handler                            *)
(***************************************************************************)
\* Removed dropping the first stored participant, whoever it is
RemovedFirst(participants, participantId) ==
  IF participants = <<>> THEN <<>> ELSE Tail(participants)

\* room.participants.filter((p) => p.id !== participantId)
Removed(participants, participantId) == Without(participants, {participantId})

\* removeParticipant returns `participants`.  A direct caller takes them;
\* the disconnect handler broadcasts them and logs "leave" when they are
\* fewer than participantsBefore
AfterRemove(w, c, participants) ==
  IF w.frame[c].op = "remove"
    THEN [w EXCEPT !.ret[c] = Some(participants), !.pc[c] = "done"]
  ELSE IF Len(participants) < w.frame[c].beforeLen
    THEN [Emit(w, c, "PARTICIPANTS_UPDATE", "room") EXCEPT
            !.frame[c].beforeLive = FALSE,
            !.room[c] = None,
            !.pc[c] = "log_get"]
  ELSE [Emit(w, c, "PARTICIPANTS_UPDATE", "room") EXCEPT
          !.frame[c].beforeLive = FALSE,
          !.room[c] = None,
          !.ret[c] = Some(participants),
          !.pc[c] = "done"]

\* RemoveGet without `if (beforeCount === afterCount) return`
RemoveGetAlwaysSaves(b, w, c) ==
  LET x == w.frame[c].participantId
      r == w.store
      left == Removed(r.participants, x)
      handed == [r EXCEPT
                   !.participants = left,
                   !.hostId = IF r.hostId = x
                                THEN IF left # <<>> THEN left[1].id ELSE NoHost
                                ELSE r.hostId]
  IN [Assign(b, w, c, handed, "replace") EXCEPT
        !.pc[c] = "removeParticipant_save"]

\* getRoom of an attempt, then the code up to saveRoom
RemoveGet(b, w, c) ==
  LET x == w.frame[c].participantId
      r == w.store
      left == Removed(r.participants, x)
      filtered == [r EXCEPT !.participants = left]
      handed == [filtered EXCEPT
                   !.hostId = IF r.hostId = x
                                THEN IF left # <<>> THEN left[1].id ELSE NoHost
                                ELSE r.hostId]
  IN IF Len(left) = Len(r.participants)
       THEN AfterRemove(Assign(b, w, c, filtered, "replace"), c, left)
       ELSE [Assign(b, w, c, handed, "replace") EXCEPT
               !.pc[c] = "removeParticipant_save"]

removeGet(c) ==
  /\ \E b \in Backings : pc[b][c] = "removeParticipant_get"
  /\ Becomes([b \in Backings |->
               IF pc[b][c] = "removeParticipant_get" THEN RemoveGet(b, World(b), c) ELSE World(b)])
  /\ UNCHANGED <<now, callers, budget, sockets>>

\* saveRoom of the attempt completes; the room is read again to verify
RemoveSaved(b, w, c) ==
  [Save(b, w, c) EXCEPT !.pc[c] = "removeParticipant_verify"]

removeSaved(c) ==
  /\ \E b \in Backings : pc[b][c] = "removeParticipant_save"
  /\ Becomes([b \in Backings |->
               IF pc[b][c] = "removeParticipant_save" THEN RemoveSaved(b, World(b), c) ELSE World(b)])
  /\ UNCHANGED <<now, callers, budget, sockets>>

\* getRoom of the verification completes
RemoveVerified(b, w, c) ==
  IF w.frame[c].participantId \notin Ids(w.store.participants)
    THEN AfterRemove(w, c, w.store.participants)
    ELSE [w EXCEPT !.pc[c] = "removeParticipant_sleep"]

removeVerified(c) ==
  /\ \E b \in Backings : pc[b][c] = "removeParticipant_verify"
  /\ Becomes([b \in Backings |->
               IF pc[b][c] = "removeParticipant_verify" THEN RemoveVerified(b, World(b), c) ELSE World(b)])
  /\ UNCHANGED <<now, callers, budget, sockets>>

\* the delay before the retry is over: the next attempt, or the final read
RemoveSlept(b, w, c) ==
  [w EXCEPT !.frame[c].attempt = @ + 1,
            !.pc[c] = IF w.frame[c].attempt + 1 < Retries
                        THEN "removeParticipant_get"
                        ELSE "removeParticipant_final"]

removeSlept(c) ==
  /\ \E b \in Backings : pc[b][c] = "removeParticipant_sleep"
  /\ Becomes([b \in Backings |->
               IF pc[b][c] = "removeParticipant_sleep" THEN RemoveSlept(b, World(b), c) ELSE World(b)])
  /\ UNCHANGED <<now, callers, budget, sockets>>

\* the final getRoom after the retries are used up
RemoveFinal(b, w, c) == AfterRemove(w, c, w.store.participants)

removeFinal(c) ==
  /\ \E b \in Backings : pc[b][c] = "removeParticipant_final"
  /\ Becomes([b \in Backings |->
               IF pc[b][c] = "removeParticipant_final" THEN RemoveFinal(b, World(b), c) ELSE World(b)])
  /\ UNCHANGED <<now, callers, budget, sockets>>

\* removeParticipant(roomId, x) called directly
EnterRemove(w, c, x) ==
  [w EXCEPT !.frame[c] = [NoFrame EXCEPT !.op = "remove", !.participantId = x],
            !.pre[c] = Some(w.store),
            !.ret[c] = None,
            !.pc[c] = "removeParticipant_get"]

removeParticipant(c) ==
  /\ Free(c)
  /\ \E x \in Conns :
       Dispatch([b \in Backings |-> EnterRemove(World(b), c, x)])

\* the socket disconnects while its JOIN_ROOM is still in addParticipant:
\* currentRoomId is not set yet, so the disconnect handler removes nothing,
\* and the JOIN_ROOM handler runs on
disconnectJoining(c) ==
  /\ sockets[c] = "connected"
  /\ \E b \in deployed : pc[b][c] \notin {"idle", "done"}
  /\ \A b \in deployed : frame[b][c].op = "join" /\ ~session[b][c].roomId
  /\ sockets' = [sockets EXCEPT ![c] = "gone"]
  /\ UNCHANGED <<deployed, io, session, store, stray, pc, frame, room, actRoom,
                 ret, pre, behind, logs, now, callers, budget, clients>>

\* the socket has left the registry and its rooms; the handler reads the
\* room when the connection had joined one
EnterDisconnect(w, c) ==
  IF w.session[c].roomId
    THEN [w EXCEPT
            !.io.rooms = @ \ {c},
            !.frame[c] = [NoFrame EXCEPT !.op = "disconnect",
                                        !.participantId = c,
                                        !.name = w.session[c].userName,
                                        !.uniqueId = w.session[c].uniqueId,
                                        !.logType = "leave"],
            !.pre[c] = Some(w.store),
            !.ret[c] = None,
            !.pc[c] = "disconnect_get"]
    ELSE [w EXCEPT !.io.rooms = @ \ {c}]

\* a socket disconnects when none of its events is being handled
disconnect(c) ==
  /\ Ready(c)
  /\ sockets' = [sockets EXCEPT ![c] = "gone"]
  /\ Becomes([b \in Backings |-> EnterDisconnect(World(b), c)])
  /\ budget' = budget - 1
  /\ UNCHANGED <<now, callers>>

\* roomBefore has been read: participantsBefore, then removeParticipant
DisconnectGet(b, w, c) ==
  [w EXCEPT !.frame[c].beforeLen = Len(w.store.participants),
            !.frame[c].beforeLive = (b = "memory"),
            !.pc[c] = "removeParticipant_get"]

disconnectGet(c) ==
  /\ \E b \in Backings : pc[b][c] = "disconnect_get"
  /\ Becomes([b \in Backings |->
               IF pc[b][c] = "disconnect_get" THEN DisconnectGet(b, World(b), c) ELSE World(b)])
  /\ UNCHANGED <<now, callers, budget, sockets>>

\* after the "leave" entry the room is read and broadcast as ROOM_STATE
DisconnectEmit(b, w, c) ==
  [Emit(w, c, "ROOM_STATE", "room") EXCEPT
     !.ret[c] = Some(w.store.participants),
     !.pc[c] = "done"]

disconnectEmit(c) ==
  /\ \E b \in Backings : pc[b][c] = "disconnect_emit"
  /\ Becomes([b \in Backings |->
               IF pc[b][c] = "disconnect_emit" THEN DisconnectEmit(b, World(b), c) ELSE World(b)])
  /\ UNCHANGED <<now, callers, budget, sockets>>

(***************************************************************************)
(* UPDATE_NAME: updateParticipantName                                      *)
(***************************************************************************)
\* the trimmed names an UPDATE_NAME payload carries
NewNames == {"Ann", "ann"}

\* the handler returns at once when the connection has not joined
EnterUpdateName(w, c, name) ==
  IF w.session[c].roomId /\ w.session[c].uniqueId # ""
    THEN [w EXCEPT
            !.frame[c] = [NoFrame EXCEPT !.op = "rename",
                                        !.name = name,
                                        !.uniqueId = w.session[c].uniqueId,
                                        !.logType = "join"],
            !.pre[c] = Some(w.store),
            !.ret[c] = None,
            !.pc[c] = "updateName_get"]
    ELSE w

UPDATE_NAME(c) ==
  /\ Ready(c)
  /\ \E b \in deployed : session[b][c].roomId
  /\ \E name \in NewNames :
       Dispatch([b \in Backings |-> EnterUpdateName(World(b), c, name)])

\* UpdateNameGet without the update of userTodos[uniqueId].userName
UpdateNameGetKeepsTodos(b, w, c) ==
  LET f == w.frame[c]
      r == w.store
      renamed == [r EXCEPT !.participants = Renamed(@, f.uniqueId, f.name)]
  IN IF NameTaken(r.participants, f.name, f.uniqueId)
       THEN [Error(w, c, "NAME_TAKEN") EXCEPT
               !.ret[c] = Some([success |-> FALSE]),
               !.pc[c] = "done"]
       ELSE [Assign(b, w, c, renamed, "replace") EXCEPT !.pc[c] = "updateName_save"]

\* getRoom of updateParticipantName, then the code up to its saveRoom
UpdateNameGet(b, w, c) ==
  LET f == w.frame[c]
      r == w.store
      renamed == [r EXCEPT
                    !.participants = Renamed(@, f.uniqueId, f.name),
                    !.userTodos[f.uniqueId] = IF @ # "" THEN f.name ELSE @]
  IN IF NameTaken(r.participants, f.name, f.uniqueId)
       THEN [Error(w, c, "NAME_TAKEN") EXCEPT
               !.ret[c] = Some([success |-> FALSE]),
               !.pc[c] = "done"]
       ELSE [Assign(b, w, c, renamed, "replace") EXCEPT !.pc[c] = "updateName_save"]

updateNameGet(c) ==
  /\ \E b \in Backings : pc[b][c] = "updateName_get"
  /\ Becomes([b \in Backings |->
               IF pc[b][c] = "updateName_get" THEN UpdateNameGet(b, World(b), c) ELSE World(b)])
  /\ UNCHANGED <<now, callers, budget, sockets>>

\* currentUserName is set and PARTICIPANTS_UPDATE is broadcast; the room is
\* read for TODOS_UPDATE
RenamedSession(w, c) ==
  [Emit(w, c, "PARTICIPANTS_UPDATE", "room") EXCEPT
     !.session[c].userName = w.frame[c].name,
     !.room[c] = None,
     !.pc[c] = "updateName_emit"]

\* saveRoom of updateParticipantName completes; a user who was Anonymous
\* is logged as joined
UpdateNameSaved(b, w, c) ==
  IF w.session[c].userName = "Anonymous" /\ w.frame[c].name # "Anonymous"
    THEN [Save(b, w, c) EXCEPT !.room[c] = None, !.pc[c] = "log_get"]
    ELSE RenamedSession(Save(b, w, c), c)

updateNameSaved(c) ==
  /\ \E b \in Backings : pc[b][c] = "updateName_save"
  /\ Becomes([b \in Backings |->
               IF pc[b][c] = "updateName_save" THEN UpdateNameSaved(b, World(b), c) ELSE World(b)])
  /\ UNCHANGED <<now, callers, budget, sockets>>

\* the room with the new entry is read and broadcast as ROOM_STATE
UpdateNameGotRoom(b, w, c) ==
  RenamedSession(Emit(w, c, "ROOM_STATE", "room"), c)

updateNameGotRoom(c) ==
  /\ \E b \in Backings : pc[b][c] = "updateName_getRoom"
  /\ Becomes([b \in Backings |->
               IF pc[b][c] = "updateName_getRoom" THEN UpdateNameGotRoom(b, World(b), c) ELSE World(b)])
  /\ UNCHANGED <<now, callers, budget, sockets>>

\* the room is read and its todos are broadcast as TODOS_UPDATE
UpdateNameEmit(b, w, c) ==
  [Emit(w, c, "TODOS_UPDATE", "room") EXCEPT
     !.ret[c] = Some([success |-> TRUE]),
     !.pc[c] = "done"]

updateNameEmit(c) ==
  /\ \E b \in Backings : pc[b][c] = "updateName_emit"
  /\ Becomes([b \in Backings |->
               IF pc[b][c] = "updateName_emit" THEN UpdateNameEmit(b, World(b), c) ELSE World(b)])
  /\ UNCHANGED <<now, callers, budget, sockets>>

(***************************************************************************)
(* The gateway's handlers of TIMER_START and UPDATE_SETTINGS               *)
(***************************************************************************)
\* the settings payloads sent to the gateway
GatePayloads == {[mode |-> "host"], [mode |-> "collab"], [focusSec |-> 3]}

\* the handler up to its getRoom; it returns at once without currentRoomId
EnterGate(w, c, op, timestamp, payload) ==
  [w EXCEPT !.frame[c] = [NoFrame EXCEPT !.op = op,
                                        !.timestamp = timestamp,
                                        !.settings = payload,
                                        !.gate = "check"],
            !.pre[c] = Some(w.store),
            !.ret[c] = None,
            !.pc[c] = "gate_get"]

TIMER_START(c) ==
  /\ Ready(c)
  /\ \E b \in deployed : session[b][c].roomId
  /\ \E timestamp \in Timestamps(now) :
       Dispatch([b \in Backings |-> EnterGate(World(b), c, "start", timestamp, None)])

TIMER_PAUSE(c) ==
  /\ Ready(c)
  /\ \E b \in deployed : session[b][c].roomId
  /\ \E timestamp \in Timestamps(now) :
       Dispatch([b \in Backings |-> EnterGate(World(b), c, "pause", timestamp, None)])

UPDATE_SETTINGS(c) ==
  /\ Ready(c)
  /\ \E b \in deployed : session[b][c].roomId
  /\ \E payload \in GatePayloads :
       Dispatch([b \in Backings |-> EnterGate(World(b), c, "settings", 0, payload)])

\* the timer, settings, chat and todo events of the gateway
Commands ==
  {"TIMER_START", "TIMER_PAUSE", "TIMER_RESET", "TIMER_SKIP", "UPDATE_SETTINGS",
   "SEND_MESSAGE", "TODO_ADD", "TODO_UPDATE", "TODO_DELETE", "TODO_SET_ACTIVE",
   "TODO_SET_VISIBILITY", "TODO_REORDER"}

\* `if (!currentRoomId) return`: the handler of a command of a connection
\* that has not joined returns at its first line
EnterUnjoined(w, c, command) ==
  [w EXCEPT !.frame[c] = [NoFrame EXCEPT !.op = command, !.gate = "unjoined"],
            !.pre[c] = Some(w.store),
            !.ret[c] = None,
            !.pc[c] = "done"]

commandUnjoined(c) ==
  /\ Ready(c)
  /\ \A b \in deployed : ~session[b][c].roomId
  /\ \E command \in Commands :
       Dispatch([b \in Backings |-> EnterUnjoined(World(b), c, command)])

\* the sources a TIMER_SKIP payload carries
Sources == {"auto", "manual"}

TIMER_SKIP(c) ==
  /\ Ready(c)
  /\ \E b \in deployed : session[b][c].roomId
  /\ \E timestamp \in Timestamps(now), source \in Sources :
       Dispatch([b \in Backings |->
                  [EnterGate(World(b), c, "skip", timestamp, None) EXCEPT
                     !.frame[c].source = source]])

\* TIMER_SKIP after the permission check: an auto skip is ignored unless the
\* timer runs and is within the grace window of its end; skipPhase is called
\* with the guard of the timer read here when the source is auto
GateSkip(w, c, t) ==
  LET f == w.frame[c]
      timer == w.store.timer
      remainingMs == timer.phaseEndsAt - t
  IN IF /\ f.source = "auto"
        /\ \/ ~timer.running
           \/ timer.phaseEndsAt = Null
           \/ remainingMs > AUTO_SKIP_GRACE_MS
       THEN [w EXCEPT !.frame[c].gate = "ignored",
                      !.frame[c].checkedAt = t,
                      !.pc[c] = "done"]
       ELSE [w EXCEPT !.frame[c].guard = IF f.source = "auto"
                                           THEN GuardOf(timer) ELSE None,
                      !.frame[c].checkedAt = t,
                      !.pc[c] = "skipPhase_get"]

\* getRoom of the handler: the permission check, then the store operation
GateGet(b, w, c, t) ==
  LET f == w.frame[c]
      r == w.store
  IN IF r.settings.mode = "host" /\ r.hostId # c
       THEN [Error(w, c, "ERROR") EXCEPT !.frame[c].gate = "rejected",
                                         !.pc[c] = "done"]
     ELSE IF f.op = "skip" THEN GateSkip(w, c, t)
     ELSE IF f.op = "settings"
       THEN [EnterSettings(b, w, c, f.settings) EXCEPT !.frame[c].gate = "pending"]
     ELSE [Enter(b, w, c, f.op, f.timestamp, None, t) EXCEPT
             !.frame[c].gate = "pending"]

gateGet(c) ==
  /\ \E b \in Backings : pc[b][c] = "gate_get"
  /\ Becomes([b \in Backings |->
               IF pc[b][c] = "gate_get" THEN GateGet(b, World(b), c, now) ELSE World(b)])
  /\ UNCHANGED <<now, callers, budget, sockets>>

\* getRoom of the skipPhase the handler called: its guard, then the code up
\* to addActivity
GateSkipGet(b, w, c, t) ==
  LET f == w.frame[c]
  IN [EnterSkip(b, w, c, f.timestamp, f.guard, t) EXCEPT
        !.frame[c].gate = "pending",
        !.frame[c].source = f.source,
        !.frame[c].checkedAt = f.checkedAt]

gateSkipGet(c) ==
  /\ \E b \in Backings : pc[b][c] = "skipPhase_get"
  /\ Becomes([b \in Backings |->
               IF pc[b][c] = "skipPhase_get" THEN GateSkipGet(b, World(b), c, now) ELSE World(b)])
  /\ UNCHANGED <<now, callers, budget, sockets>>

\* io.to(currentRoomId).emit(event, payload): the event is on its way to
\* the page of every socket of the group
Deliver(w, event, payload) ==
  [w EXCEPT !.clients =
     [d \in Conns |->
        IF d \in w.io.rooms /\ w.clients[d] # None
          THEN Some([w.clients[d][1] EXCEPT
                       !.inbox = Append(@, [event |-> event,
                                            payload |-> payload])])
          ELSE w.clients[d]]]

\* `timer` as the handler emits it: the value the store operation returned,
\* which on the in-memory map is the timer of the stored object
Returned_timer(b, w, c) ==
  IF b = "redis" THEN w.ret[c][1] ELSE w.store.timer

\* the store operation has returned: nothing is sent when it returned null;
\* else TIMER_UPDATE goes to the group after a timer command, and the room
\* is read again unless the command was an auto skip
GateEmit(b, w, c) ==
  LET f == w.frame[c]
      update == Deliver(Emit(w, c, "TIMER_UPDATE", "room"), "TIMER_UPDATE",
                        [timer |-> Returned_timer(b, w, c)])
  IN IF w.ret[c] = None
       THEN [w EXCEPT !.frame[c].gate = "dropped"]
     ELSE IF f.op = "settings"
       THEN [w EXCEPT !.frame[c].gate = "reading"]
     ELSE IF f.op = "skip" /\ f.source = "auto"
       THEN [update EXCEPT !.frame[c].gate = "sent"]
     ELSE [update EXCEPT !.frame[c].gate = "reading"]

gateEmit(c) ==
  /\ \E b \in Backings : pc[b][c] = "done" /\ frame[b][c].gate = "pending"
  /\ Becomes([b \in Backings |->
               IF pc[b][c] = "done" /\ frame[b][c].gate = "pending"
                 THEN GateEmit(b, World(b), c) ELSE World(b)])
  /\ UNCHANGED <<now, callers, budget, sockets>>

\* the room has been read: ROOM_STATE goes to the group, and TIMER_UPDATE
\* too after a settings command
GateState(b, w, c) ==
  LET state == Deliver(Emit(w, c, "ROOM_STATE", "room"), "ROOM_STATE",
                       [timer |-> w.store.timer, settings |-> w.store.settings])
      both == IF w.frame[c].op = "settings"
                THEN Deliver(Emit(state, c, "TIMER_UPDATE", "room"),
                             "TIMER_UPDATE", [timer |-> w.store.timer])
                ELSE state
  IN [both EXCEPT !.frame[c].gate = "sent"]

gateState(c) ==
  /\ \E b \in Backings : pc[b][c] = "done" /\ frame[b][c].gate = "reading"
  /\ Becomes([b \in Backings |->
               IF pc[b][c] = "done" /\ frame[b][c].gate = "reading"
                 THEN GateState(b, World(b), c) ELSE World(b)])
  /\ UNCHANGED <<now, callers, budget, sockets>>

(***************************************************************************)
(* Store operations called with a room id that has no record               *)
(***************************************************************************)
\* the operations of the store that take a room id and read the room
StoreOps ==
  {"addActivity", "startTimer", "pauseTimer", "resetTimer", "skipPhase",
   "addParticipant", "removeParticipant", "updateParticipantName",
   "updateSettings", "addMessage", "ensureUserTodos", "addTodo", "updateTodo",
   "deleteTodo", "setActiveTodo", "setTodoVisibility", "reorderTodos"}

\* what each returns at `if (!room) return ...` (None: null)
Sentinel(op) ==
  CASE op = "addActivity" -> Some("undefined")
    [] op = "removeParticipant" -> Some(<<>>)
    [] op \in {"addParticipant", "updateParticipantName"} ->
         Some([success |-> FALSE, error |-> "Room not found", participants |-> <<>>])
    [] OTHER -> None

\* the operation up to its getRoom
EnterUnknown(w, c, op) ==
  [w EXCEPT !.frame[c] = [NoFrame EXCEPT !.op = op],
            !.pre[c] = Some(w.store),
            !.ret[c] = None,
            !.pc[c] = "unknown_get"]

callUnknown(c) ==
  /\ Free(c)
  /\ \E op \in StoreOps :
       Dispatch([b \in Backings |-> EnterUnknown(World(b), c, op)])

\* UnknownGet with an operation that works on a fresh room when it finds
\* none, and saves it
UnknownGetCreates(b, w, c) ==
  [w EXCEPT !.stray = Some(createRoom(w.store.settings)),
            !.ret[c] = Sentinel(w.frame[c].op),
            !.pc[c] = "done"]

\* getRoom has returned: null when nothing is stored under the id, and the
\* operation returns its sentinel; else it goes on with the room
UnknownGet(b, w, c) ==
  IF w.stray = None
    THEN [w EXCEPT !.ret[c] = Sentinel(w.frame[c].op), !.pc[c] = "done"]
    ELSE [w EXCEPT !.pc[c] = "unknown_found"]

unknownGet(c) ==
  /\ \E b \in Backings : pc[b][c] = "unknown_get"
  /\ Becomes([b \in Backings |-> 
               IF pc[b][c] = "unknown_get" THEN UnknownGet(b, World(b), c) ELSE World(b)])
  /\ UNCHANGED <<now, callers, budget, sockets>>

(***************************************************************************)
(* Two handlers of one connection                                          *)
(*                                                                         *)
(* socket.on registers async handlers; an event that arrives while the     *)
(* handler of an earlier one is suspended at an await starts its own       *)
(* handler at once. The two share the closure of the connection (session)  *)
(* and have locals of their own.                                           *)
(***************************************************************************)
\* the two handlers of connection c change places
Swapped(w, c) ==
  [w EXCEPT !.pc[c] = w.behind[c].pc,
            !.frame[c] = w.behind[c].frame,
            !.room[c] = w.behind[c].room,
            !.actRoom[c] = w.behind[c].actRoom,
            !.ret[c] = w.behind[c].ret,
            !.pre[c] = w.behind[c].pre,
            !.behind[c] = [pc |-> w.pc[c], frame |-> w.frame[c],
                           room |-> w.room[c], actRoom |-> w.actRoom[c],
                           ret |-> w.ret[c], pre |-> w.pre[c]]]

\* the handler has run to its end
Completed(at, f) ==
  \/ at = "idle"
  \/ at = "done" /\ f.gate \notin {"check", "pending", "reading"}

\* TIMER_PAUSE arrives while a handler of the connection is suspended
TIMER_PAUSE_behind(c) ==
  /\ c \in callers /\ budget > 0 /\ sockets[c] = "connected"
  /\ \E b \in deployed : session[b][c].roomId
  /\ \E b \in deployed : ~Completed(pc[b][c], frame[b][c])
  /\ \A b \in Backings : behind[b][c].pc = "idle"
  /\ \E timestamp \in Timestamps(now) :
       Dispatch([b \in Backings |->
                  Swapped(EnterGate(Swapped(World(b), c), c, "pause", timestamp, None), c)])

gateGetBehind(c) ==
  /\ \E b \in Backings : behind[b][c].pc = "gate_get"
  /\ Becomes([b \in Backings |->
               IF behind[b][c].pc = "gate_get"
                 THEN Swapped(GateGet(b, Swapped(World(b), c), c, now), c)
                 ELSE World(b)])
  /\ UNCHANGED <<now, callers, budget, sockets>>

addActivityGetBehind(c) ==
  /\ \E b \in Backings : behind[b][c].pc = "addActivity_get"
  /\ Becomes([b \in Backings |->
               Swapped(AddActivityGet(b, Swapped(World(b), c), c, now), c)])
  /\ UNCHANGED <<now, callers, budget, sockets>>

afterActivityBehind(c) ==
  /\ \E b \in Backings : behind[b][c].pc = "addActivity_save"
  /\ Becomes([b \in Backings |->
               Swapped(AfterActivity(b, Swapped(World(b), c), c, now), c)])
  /\ UNCHANGED <<now, callers, budget, sockets>>

savedBehind(c) ==
  /\ \E b \in Backings : behind[b][c].pc = "saveRoom"
  /\ Becomes([b \in Backings |->
               Swapped(Saved(b, Swapped(World(b), c), c), c)])
  /\ UNCHANGED <<now, callers, budget, sockets>>

gateEmitBehind(c) ==
  /\ \E b \in Backings : behind[b][c].pc = "done" /\ behind[b][c].frame.gate = "pending"
  /\ Becomes([b \in Backings |->
               IF behind[b][c].pc = "done" /\ behind[b][c].frame.gate = "pending"
                 THEN Swapped(GateEmit(b, Swapped(World(b), c), c), c)
                 ELSE World(b)])
  /\ UNCHANGED <<now, callers, budget, sockets>>

gateStateBehind(c) ==
  /\ \E b \in Backings : behind[b][c].pc = "done" /\ behind[b][c].frame.gate = "reading"
  /\ Becomes([b \in Backings |->
               IF behind[b][c].pc = "done" /\ behind[b][c].frame.gate = "reading"
                 THEN Swapped(GateState(b, Swapped(World(b), c), c), c)
                 ELSE World(b)])
  /\ UNCHANGED <<now, callers, budget, sockets>>

returnedBehind(c) ==
  /\ \A b \in deployed : behind[b][c].pc = "done"
  /\ \A b \in deployed : behind[b][c].frame.gate \notin {"pending", "reading"}
  /\ Becomes([b \in Backings |->
               Swapped(Returned(Swapped(World(b), c), c), c)])
  /\ UNCHANGED <<now, callers, budget, sockets>>

(***************************************************************************)
(* Specifications                                                          *)
(***************************************************************************)
Continue(c) ==
  addActivityGet(c) \/ afterActivity(c) \/ saved(c) \/ returned(c)

Next ==
  \/ Tick
  \/ \E c \in Conns :
       \/ startTimer(c) \/ pauseTimer(c) \/ resetTimer(c) \/ skipPhase(c)
       \/ Continue(c)

\* calls of different connections interleave at their awaits
Init == InitWith({RoomSettings(2)}, Pair, MaxCalls)

Spec == Init /\ [][Next]_vars

\* one call at a time: a single connection dispatches
InitSeq == InitWith({RoomSettings(1), RoomSettings(2)}, {"s1"}, MaxSeqCalls)

SpecSeq == InitSeq /\ [][Next]_vars

\* skips only, one at a time, each stamped with the server receipt time,
\* on a room created with longBreakEvery 4
InitSkip == InitWith({RoomSettings(4)}, {"s1"}, MaxSkips)

NextSkip ==
  \/ Tick
  \/ \E c \in Conns : skipPhaseUnstamped(c) \/ Continue(c)

SpecSkip == InitSkip /\ [][NextSkip]_vars

\* timer operations stamped with the server receipt time and settings
\* updates, one call at a time, on a room created with a focus of 2 seconds
InitSettings ==
  InitWith({[RoomSettings(2) EXCEPT !.focusSec = 2]}, {"s1"}, MaxSettingsCalls)

NextSettings ==
  \/ Tick
  \/ \E c \in Conns :
       \/ timerUnstamped(c) \/ skipPhaseUnstamped(c)
       \/ updateSettings(c)
       \/ Continue(c)

SpecSettings == InitSettings /\ [][NextSettings]_vars

\* no handler is in flight
Quiet == \A b \in Backings, c \in Conns : pc[b][c] = "idle"

\* the steps of a JOIN_ROOM in flight that has no stale participant to remove
ContinueJoin(c) ==
  \/ addParticipantGet(c) \/ addParticipantSaved(c)
  \/ logGet(c) \/ logSaved(c)
  \/ ensureUserTodosGet(c) \/ ensureUserTodosSaved(c)
  \/ joinGotRoom(c) \/ cleanupGet(c) \/ cleanupFetched(c)
  \/ joinEmit(c)
  \/ returned(c)

\* joins handled one at a time; no socket disconnects, so the cleanup finds
\* no stale participant
InitJoin == InitOne({RoomSettings(2)}, Pair, MaxJoins)

NextJoin ==
  \E c \in Conns :
    \/ connection(c)
    \/ Quiet /\ JOIN_ROOM(c)
    \/ ContinueJoin(c)

SpecJoin == InitJoin /\ [][NextJoin]_vars

\* the steps of the handlers in flight
ContinuePresence(c) ==
  \/ ContinueJoin(c)
  \/ cleanupSaved(c)
  \/ disconnectGet(c)
  \/ removeGet(c) \/ removeSaved(c) \/ removeVerified(c)
  \/ removeSlept(c) \/ removeFinal(c)
  \/ disconnectEmit(c)
  \/ updateNameGet(c) \/ updateNameSaved(c) \/ updateNameGotRoom(c)
  \/ updateNameEmit(c)

\* the browser profile (persistent user id) behind each connection, and the
\* names its user joins with
UserOf == [c \in Conns |-> IF c = "s2" THEN "u2" ELSE "u1"]

NamesOf == [c \in Conns |-> IF c = "s2" THEN {"ann", "Bob"} ELSE {"", "Ann"}]

\* the JOIN_ROOM being dispatched comes from the connection's own user
Own(c) ==
  \A b \in deployed :
    /\ frame'[b][c].uniqueId = UserOf[c]
    /\ frame'[b][c].name \in {NameOrAnonymous(name) : name \in NamesOf[c]}

\* the handlers of different connections interleave at their awaits
InitPresence == InitOne({RoomSettings(2)}, Pair, MaxEvents)

NextPresence ==
  \E c \in Conns :
    \/ connection(c)
    \/ JOIN_ROOM(c) /\ Own(c)
    \/ UPDATE_NAME(c)
    \/ disconnect(c)
    \/ ContinuePresence(c)

SpecPresence == InitPresence /\ [][NextPresence]_vars

\* the participant the removeParticipant calls are made for
Target == "s1"

\* the removeParticipant being dispatched by c is for Target, and nothing
\* but removeParticipant calls is in flight
Together(c) ==
  \A b \in deployed :
    /\ frame'[b][c].participantId = Target
    /\ \A d \in Conns \ {c} : pc[b][d] = "idle" \/ frame[b][d].op = "remove"

\* the JOIN_ROOM being dispatched is Ann's on s1 or Bob's on s2
Named(c) ==
  /\ c \in Pair
  /\ Own(c)
  /\ \A b \in deployed : frame'[b][c].name \in {"Ann", "Bob"}

\* the steps of a removeParticipant call whose verification succeeds
ContinueRemove(c) ==
  removeGet(c) \/ removeSaved(c) \/ removeVerified(c)

\* participants join one at a time; removeParticipant is called for Target
\* by up to three callers at once
InitRemove == InitOne({RoomSettings(2)}, Conns, MaxRemoveEvents)

NextRemove ==
  \E c \in Conns :
    \/ connection(c)
    \/ Quiet /\ JOIN_ROOM(c) /\ Named(c)
    \/ ContinueJoin(c)
    \/ removeParticipant(c) /\ Together(c)
    \/ ContinueRemove(c)

\* every call in flight is resumed in the end
SpecRemove ==
  /\ InitRemove
  /\ [][NextRemove]_vars
  /\ \A c \in Conns : WF_vars(ContinueRemove(c))

\* the JOIN_ROOM being dispatched is the first of its connection, with the
\* name of its guest: Ann on s1, Bob on s2, nameless on s3
GuestName ==
  [c \in Conns |-> CASE c = "s1" -> "Ann" [] c = "s2" -> "Bob" [] OTHER -> "Anonymous"]

Guest(c) ==
  \A b \in deployed :
    /\ ~session[b][c].roomId
    /\ frame'[b][c].uniqueId = UserOf[c]
    /\ frame'[b][c].name = GuestName[c]

\* s1 joins first and alone; the others join once its handler has returned
InTurn(c) ==
  IF c = "s1" THEN Quiet
  ELSE \A b \in deployed : session[b]["s1"].roomId /\ pc[b]["s1"] = "idle"

\* three guests join, the handlers of the last two interleaved, and sockets
\* drop while joining: a later cleanup finds their participants stale
InitCleanup == InitOne({RoomSettings(2)}, Conns, MaxCleanupJoins)

NextCleanup ==
  \E c \in Conns :
    \/ connection(c)
    \/ JOIN_ROOM(c) /\ Guest(c) /\ InTurn(c)
    \/ disconnectJoining(c)
    \/ ContinueJoin(c)
    \/ cleanupSaved(c)

SpecCleanup == InitCleanup /\ [][NextCleanup]_vars

\* the steps of a gateway handler, of the store operation it calls and of
\* a disconnect handler whose removal is verified at once
ContinueGate(c) ==
  \/ gateGet(c) \/ gateEmit(c) \/ gateState(c)
  \/ addActivityGet(c) \/ afterActivity(c) \/ saved(c)
  \/ disconnectGet(c) \/ ContinueRemove(c) \/ disconnectEmit(c)

\* rooms created by POST /rooms in collab or in host mode; Ann and Bob
\* join, send timer and settings commands and leave, one event at a time
InitGate ==
  InitOne({RoomSettings(2), [RoomSettings(2) EXCEPT !.mode = "host"]},
          Pair, MaxGateEvents)

NextGate ==
  \E c \in Conns :
    \/ connection(c)
    \/ Quiet /\ JOIN_ROOM(c) /\ Named(c)
    \/ Quiet /\ TIMER_START(c)
    \/ Quiet /\ UPDATE_SETTINGS(c)
    \/ Quiet /\ disconnect(c)
    \/ ContinueJoin(c)
    \/ ContinueGate(c)

SpecGate == InitGate /\ [][NextGate]_vars

\* the room after Ann has joined on s1 and then Bob on s2, at server time 1
Guests ==
  <<[id |-> "s1", uniqueId |-> "u1", name |-> "Ann"],
    [id |-> "s2", uniqueId |-> "u2", name |-> "Bob"]>>

JoinedRoom(settings) ==
  [createRoom(settings) EXCEPT
     !.participants = Guests,
     !.userTodos = [u \in Users |-> IF u = "u1" THEN "Ann" ELSE "Bob"],
     !.history = <<[id |-> 2, type |-> "join", userId |-> "u2",
                    timestamp |-> 1, details |-> <<>>],
                   [id |-> 1, type |-> "join", userId |-> "u1",
                    timestamp |-> 1, details |-> <<>>]>>]

\* one deployment in which both JOIN_ROOM handlers have returned
StartedJoined(settingsSet, who, calls) ==
  /\ deployed \in {{"memory"}, {"redis"}}
  /\ \E settings \in settingsSet :
       store = [b \in Backings |->
                  IF b \in deployed THEN JoinedRoom(settings) ELSE createRoom(settings)]
  /\ sockets = [c \in Conns |-> IF c \in Pair THEN "connected" ELSE "fresh"]
  /\ io = [b \in Backings |->
             IF b \in deployed THEN [rooms |-> Pair] ELSE NoRooms]
  /\ session = [b \in Backings |-> [c \in Conns |->
                  IF b \in deployed /\ c \in Pair
                    THEN [roomId |-> TRUE,
                          userName |-> IF c = "s1" THEN "Ann" ELSE "Bob",
                          uniqueId |-> UserOf[c]]
                    ELSE NoSession]]
  /\ pc = [b \in Backings |-> [c \in Conns |-> "idle"]]
  /\ frame = [b \in Backings |-> [c \in Conns |-> NoFrame]]
  /\ room = [b \in Backings |-> [c \in Conns |-> None]]
  /\ actRoom = [b \in Backings |-> [c \in Conns |-> None]]
  /\ ret = [b \in Backings |-> [c \in Conns |-> None]]
  /\ pre = [b \in Backings |-> [c \in Conns |-> None]]
  /\ behind = [b \in Backings |-> [c \in Conns |-> NoHandler]]
  /\ stray = [b \in Backings |-> None]
  /\ clients = [b \in Backings |-> [c \in Conns |-> None]]
  /\ logs = [b \in Backings |-> IF b \in deployed THEN 2 ELSE 0]
  /\ now = 1
  /\ callers = who
  /\ budget = calls

\* the steps of the TIMER_START and TIMER_SKIP handlers
ContinueAuto(c) ==
  \/ gateGet(c) \/ gateSkipGet(c) \/ gateEmit(c) \/ gateState(c)
  \/ addActivityGet(c) \/ afterActivity(c) \/ saved(c)
  \/ returned(c)

\* Ann and Bob have joined a room with a focus phase of 3 s; their
\* TIMER_START, TIMER_PAUSE and auto TIMER_SKIP commands interleave while
\* the clock advances
InitAuto ==
  StartedJoined({[RoomSettings(2) EXCEPT !.focusSec = 3]}, Pair, MaxAutoEvents)

\* the command being dispatched carries no payload timestamp
Unstamped(c) == \A b \in deployed : frame'[b][c].timestamp = 0

\* the TIMER_SKIP being dispatched is one a client sends at the phase's end
Auto(c) == \A b \in deployed : frame'[b][c].source = "auto"

\* the timer is paused and no handler is in flight: a client starts it
Startable == Quiet /\ \A b \in deployed : ~store[b].timer.running

NextAuto ==
  \/ Tick
  \/ \E c \in Conns :
       \/ Startable /\ TIMER_START(c) /\ Unstamped(c)
       \/ TIMER_PAUSE(c) /\ Unstamped(c)
       \/ TIMER_SKIP(c) /\ Unstamped(c) /\ Auto(c)
       \/ ContinueAuto(c)

SpecAuto == InitAuto /\ [][NextAuto]_vars

\* the steps of two handlers of one connection
ContinueOverlap(c) ==
  \/ gateGet(c) \/ gateEmit(c) \/ gateState(c)
  \/ addActivityGet(c) \/ afterActivity(c) \/ saved(c)
  \/ returned(c)
  \/ gateGetBehind(c) \/ gateEmitBehind(c) \/ gateStateBehind(c)
  \/ addActivityGetBehind(c) \/ afterActivityBehind(c) \/ savedBehind(c)
  \/ returnedBehind(c)

\* Ann and Bob have joined; each sends TIMER_START and then TIMER_PAUSE
\* without waiting for an answer
InitOverlap == StartedJoined({RoomSettings(2)}, Pair, MaxOverlapEvents)

\* the command being dispatched behind another carries no payload timestamp
UnstampedBehind(c) == \A b \in deployed : behind'[b][c].frame.timestamp = 0

NextOverlap ==
  \/ Tick
  \/ \E c \in Conns :
       \/ TIMER_START(c) /\ Unstamped(c)
       \/ TIMER_PAUSE_behind(c) /\ UnstampedBehind(c)
       \/ ContinueOverlap(c)

SpecOverlap == InitOverlap /\ [][NextOverlap]_vars

\* a room with the default durations (DEFAULT_SETTINGS); one caller starts,
\* pauses, resets and skips, one call at a time, while the clock, at 0 when
\* the room is created, advances by ten minutes at a time
DefaultSettings ==
  [focusSec |-> 1500, breakSec |-> 300, longBreakSec |-> 900,
   longBreakEvery |-> 4, mode |-> "collab"]

InitDefault ==
  /\ deployed = Backings
  /\ StartedAt({DefaultSettings}, {"s1"}, MaxDefaultCalls, 0)

Elapse ==
  /\ now + ElapseMs <= ElapseMs * MaxElapses
  /\ now' = now + ElapseMs
  /\ UNCHANGED <<deployed, sockets, io, session, store, stray, pc, frame, room,
                 actRoom, ret, pre, behind, logs, callers, budget, clients>>

NextDefault ==
  \/ Elapse
  \/ \E c \in Conns :
       \/ timerUnstamped(c)
       \/ skipPhaseUnstamped(c)
       \/ Continue(c)

SpecDefault == InitDefault /\ [][NextDefault]_vars

\* Ann (s1) and Bob (s2) have joined; Ann opens a second tab (s3), and the
\* three connections send UPDATE_NAME, one event at a time
InitRename == StartedJoined({RoomSettings(2)}, Conns, MaxRenameEvents)

NextRename ==
  \E c \in Conns :
    \/ connection(c)
    \/ Quiet /\ JOIN_ROOM(c) /\ Own(c)
    \/ Quiet /\ UPDATE_NAME(c)
    \/ ContinueJoin(c)
    \/ updateNameGet(c) \/ updateNameSaved(c) \/ updateNameGotRoom(c)
    \/ updateNameEmit(c)

SpecRename == InitRename /\ [][NextRename]_vars

\* calls with an unknown room id interleave with timer operations on the
\* room
InitUnknown == InitWith({RoomSettings(2)}, Pair, MaxUnknownCalls)

NextUnknown ==
  \E c \in Conns :
    \/ callUnknown(c)
    \/ unknownGet(c)
    \/ timerUnstamped(c)
    \/ Continue(c)

SpecUnknown == InitUnknown /\ [][NextUnknown]_vars

\* connections join the room or a room that does not exist, are accepted or
\* rejected, and send commands before and after
InitEntry == InitOne({RoomSettings(2)}, Pair, MaxEntryEvents)

NextEntry ==
  \E c \in Conns :
    \/ connection(c)
    \/ Quiet /\ JOIN_ROOM(c) /\ Own(c)
    \/ Quiet /\ JOIN_ROOM_unknown(c) /\ Own(c)
    \/ Quiet /\ commandUnjoined(c)
    \/ Quiet /\ TIMER_START(c) /\ Unstamped(c)
    \/ joinGet(c)
    \/ ContinueJoin(c)
    \/ gateGet(c) \/ gateEmit(c) \/ gateState(c)
    \/ addActivityGet(c) \/ afterActivity(c) \/ saved(c)

SpecEntry == InitEntry /\ [][NextEntry]_vars

(***************************************************************************)
(* Properties                                                              *)
(***************************************************************************)
\* the call of connection c has returned on backing b and not been taken yet
Done(b, c) == pc[b][c] = "done"

\* the call entered the operation's body: skipPhase's guard did not reject it
Entered(b, c) == frame[b][c].actionTime # 0

\* the stored timer when the call was made
PreTimer(b, c) == pre[b][c][1].timer

\* the command's timestamp is lower than the lastUpdatedAt stored at the call
Older(b, c) == frame[b][c].actionTime < PreTimer(b, c).lastUpdatedAt

\* the stored history is the history at the call with exactly one new entry
\* of this call in front (the oldest entry dropped at MAX_HISTORY)
OneNewEntry(b, c) ==
  LET old == pre[b][c][1].history
      h == store[b].history
      kept == IF Len(old) >= MAX_HISTORY THEN MAX_HISTORY - 1 ELSE Len(old)
  IN /\ Len(h) = kept + 1
     /\ \A i \in 1..kept : h[i + 1] = old[i]
     /\ h[1].type = ActivityTypeOf(frame[b][c].op)
     /\ h[1].userId = c
     /\ \A i \in 1..Len(old) : old[i].id # h[1].id

\* C1: a start, pause, reset or unguarded skip whose timestamp is strictly
\* less than the stored lastUpdatedAt leaves every field of the stored timer
\* unchanged and adds exactly one new activity entry to the history.
C1_StaleCommandOnlyLogged ==
  \A b \in Backings, c \in Conns :
    (Done(b, c) /\ frame[b][c].guard = None /\ Older(b, c))
      => /\ store[b].timer = PreTimer(b, c)
         /\ OneNewEntry(b, c)

\* a pause with a payload timestamp below the stored lastUpdatedAt returned
C1_Witness ==
  \E c \in Conns : \A b \in Backings :
    /\ Done(b, c) /\ frame[b][c].op = "pause" /\ frame[b][c].timestamp # 0
    /\ Older(b, c)
    /\ Len(store[b].history) = Len(pre[b][c][1].history) + 1

\* C2: once a command with timestamp T is persisted, no command with a lower
\* timestamp changes the stored timer or lowers the stored lastUpdatedAt: a
\* step of a call whose timestamp is below the stored lastUpdatedAt leaves
\* the stored timer as it is, however the calls interleave.
C2_LowerTimestampLeavesTimer ==
  [][\A b \in Backings, c \in Conns :
       (/\ pc[b][c] # "idle" /\ pc'[b][c] # pc[b][c]
        /\ frame[b][c].actionTime < store[b].timer.lastUpdatedAt)
         => store'[b].timer = store[b].timer]_vars

\* what the command leaves when it is applied
Applied(b, c) ==
  LET f == frame[b][c]
      t == store[b].timer
      p == PreTimer(b, c)
  IN CASE f.op = "start" -> t.running /\ t.lastUpdatedAt = f.actionTime
       [] f.op = "pause" ->
            /\ ~t.running
            /\ p.running => t.lastUpdatedAt = f.actionTime
       [] f.op = "reset" -> ~t.running /\ t.lastUpdatedAt = f.actionTime
       [] f.op = "skip" -> t.phase # p.phase /\ t.lastUpdatedAt = f.actionTime

\* C3: for commands executed one after another, the stored lastUpdatedAt
\* never decreases, a command whose timestamp is greater than or equal to
\* the stored lastUpdatedAt is applied, and a command that changes the
\* timer leaves lastUpdatedAt equal to its timestamp.
C3_LogicalClock ==
  \A b \in Backings, c \in Conns :
    /\ pre[b][c] # None =>
         store[b].timer.lastUpdatedAt >= PreTimer(b, c).lastUpdatedAt
    /\ (Done(b, c) /\ Entered(b, c) /\ ~Older(b, c)) => Applied(b, c)
    /\ (Done(b, c) /\ store[b].timer # PreTimer(b, c))
         => store[b].timer.lastUpdatedAt = frame[b][c].actionTime

\* a start with a timestamp exactly equal to the stored lastUpdatedAt has
\* been applied
C3_Witness ==
  \E c \in Conns : \A b \in Backings :
    /\ Done(b, c) /\ frame[b][c].op = "start"
    /\ PreTimer(b, c).lastUpdatedAt # 0
    /\ frame[b][c].actionTime = PreTimer(b, c).lastUpdatedAt
    /\ ~PreTimer(b, c).running /\ store[b].timer.running

\* C4: every start, pause, reset or skip not rejected by skip's guard leaves
\* exactly one additional activity entry in the persisted history when it
\* returns, whether it was applied, a no-op or stale.
C4_EveryCallLogged ==
  \A b \in Backings, c \in Conns :
    (Done(b, c) /\ Entered(b, c)) => OneNewEntry(b, c)

\* C5: after every operation of the same sequence, the persisted room and
\* the returned value are the same on the in-memory map and on Redis.
C5_BackingsAgree ==
  \A c \in Conns :
    (Done("memory", c) /\ Done("redis", c))
      => /\ store["memory"] = store["redis"]
         /\ ret["memory"][c] = ret["redis"][c]

\* C6: a start on a timer that is already running leaves phaseEndsAt
\* unchanged and the timer running, and still adds one activity entry (the
\* entry is looked at on the in-memory map, which keeps it).
C6_StartWhileRunningKeepsDeadline ==
  \A b \in Backings, c \in Conns :
    (Done(b, c) /\ frame[b][c].op = "start" /\ PreTimer(b, c).running)
      => /\ store[b].timer.running
         /\ store[b].timer.phaseEndsAt = PreTimer(b, c).phaseEndsAt
         /\ b = "memory" => OneNewEntry(b, c)

\* C7: pausing a timer that is already paused returns and leaves the stored
\* timer unchanged in every field, lastUpdatedAt included, whatever the
\* settings and the command's timestamp.
C7_PauseWhilePausedIsIdentity ==
  \A b \in Backings, c \in Conns :
    (Done(b, c) /\ frame[b][c].op = "pause" /\ ~PreTimer(b, c).running)
      => /\ store[b].timer = PreTimer(b, c)
         /\ ret[b][c] = Some(PreTimer(b, c))

\* a pause that is not stale returned on a paused timer that has been set
\* before
C7_Witness ==
  \E c \in Conns : \A b \in Backings :
    /\ Done(b, c) /\ frame[b][c].op = "pause" /\ ~PreTimer(b, c).running
    /\ PreTimer(b, c).lastUpdatedAt # 0
    /\ frame[b][c].actionTime > PreTimer(b, c).lastUpdatedAt

\* the least n >= 0 with n seconds >= ms milliseconds
SecondsCovering(ms) ==
  IF ms <= 0 THEN 0
  ELSE CHOOSE n \in 1..ms : n * 1000 >= ms /\ (n - 1) * 1000 < ms

\* C8: an accepted pause of a running timer sets running to false, clears
\* phaseEndsAt and sets remainingSecWhenPaused to
\* max(0, ceil((phaseEndsAt - now) / 1000)), which is never negative.
C8_PauseRemaining ==
  \A b \in Backings, c \in Conns :
    (Done(b, c) /\ frame[b][c].op = "pause" /\ PreTimer(b, c).running
       /\ ~Older(b, c))
      => /\ ~store[b].timer.running
         /\ store[b].timer.phaseEndsAt = Null
         /\ store[b].timer.remainingSecWhenPaused =
              SecondsCovering(PreTimer(b, c).phaseEndsAt - frame[b][c].now)
         /\ store[b].timer.remainingSecWhenPaused >= 0

\* an accepted pause returned after the deadline had passed
C8_Witness ==
  \E c \in Conns : \A b \in Backings :
    /\ Done(b, c) /\ frame[b][c].op = "pause" /\ PreTimer(b, c).running
    /\ ~Older(b, c)
    /\ PreTimer(b, c).phaseEndsAt < frame[b][c].now
    /\ store[b].timer.remainingSecWhenPaused = 0

\* the configured duration of a phase
Configured(phase, settings) ==
  IF phase = "focus" THEN settings.focusSec
  ELSE IF phase = "break" THEN settings.breakSec
  ELSE settings.longBreakSec

\* C9: an accepted skip from focus increments cycleCount and moves to
\* long_break if the new cycleCount is a multiple of longBreakEvery, else to
\* break; an accepted skip from a break moves to focus with cycleCount
\* unchanged; the timer ends paused, phaseEndsAt null, remainingSecWhenPaused
\* the configured duration of the new phase.
C9_SkipTransition ==
  \A b \in Backings, c \in Conns :
    (Done(b, c) /\ frame[b][c].op = "skip" /\ Entered(b, c) /\ ~Older(b, c))
      => LET p == PreTimer(b, c)
             t == store[b].timer
             every == store[b].settings.longBreakEvery
         IN /\ p.phase = "focus" =>
                 /\ t.cycleCount = p.cycleCount + 1
                 /\ t.phase = IF \E k \in 1..t.cycleCount : k * every = t.cycleCount
                                THEN "long_break" ELSE "break"
            /\ p.phase # "focus" =>
                 /\ t.cycleCount = p.cycleCount
                 /\ t.phase = "focus"
            /\ ~t.running
            /\ t.phaseEndsAt = Null
            /\ t.remainingSecWhenPaused = Configured(t.phase, store[b].settings)

\* an accepted skip from focus with longBreakEvery 2 entered break, the new
\* cycleCount 1 being no multiple of 2
C9_Witness ==
  \E c \in Conns : \A b \in Backings :
    /\ Done(b, c) /\ frame[b][c].op = "skip" /\ Entered(b, c) /\ ~Older(b, c)
    /\ PreTimer(b, c).phase = "focus"
    /\ store[b].settings.longBreakEvery = 2
    /\ store[b].timer.phase = "break" /\ store[b].timer.cycleCount = 1

\* skips returned so far in a behaviour of SpecSkip
SkipsDone(c) == MaxSkips - budget

\* C10 as stated: from focus, cycleCount 0, longBreakEvery 4, the first four
\* skips visit break, break, break, long_break with cycleCount 1, 2, 3, 4
\* and the fifth returns to focus.
C10_FourSkipsReachLongBreak ==
  \A b \in Backings, c \in Conns :
    Done(b, c) =>
      LET k == SkipsDone(c)
          t == store[b].timer
      IN /\ k \in 1..4 =>
              /\ t.phase = <<"break", "break", "break", "long_break">>[k]
              /\ t.cycleCount = k
         /\ k = 5 => t.phase = "focus"

\* C10 amended: from focus, cycleCount 0, longBreakEvery 4, accepted skips
\* alternate between a break and focus: the odd-numbered skips 1, 3, 5, 7
\* visit break, break, break, long_break with cycleCount 1, 2, 3, 4, and
\* every even-numbered skip returns to focus with cycleCount unchanged.
C10_SkipsAlternate ==
  \A b \in Backings, c \in Conns :
    Done(b, c) =>
      LET k == SkipsDone(c)
          t == store[b].timer
      IN IF k % 2 = 1
           THEN /\ t.cycleCount = (k + 1) \div 2
                /\ t.phase = IF t.cycleCount % 4 = 0 THEN "long_break" ELSE "break"
           ELSE /\ t.cycleCount = k \div 2
                /\ t.phase = "focus"

\* the seventh skip entered long_break with cycleCount 4
C10_Witness ==
  \E c \in Conns : \A b \in Backings :
    /\ Done(b, c) /\ SkipsDone(c) = 7
    /\ store[b].timer.phase = "long_break" /\ store[b].timer.cycleCount = 4

\* the guard of the call differs from the timer stored at the call
GuardDiffers(b, c) ==
  /\ frame[b][c].guard # None
  /\ LET g == frame[b][c].guard[1]
         p == PreTimer(b, c)
     IN \/ g.expectedPhase # p.phase
        \/ g.expectedPhaseEndsAt # p.phaseEndsAt
        \/ g.expectedRunning # p.running

\* C11: a skip whose guard differs from the stored timer in the phase, in
\* phaseEndsAt or in running returns null, leaves the stored timer unchanged
\* and adds no activity entry.
C11_GuardMismatchRejected ==
  \A b \in Backings, c \in Conns :
    (Done(b, c) /\ frame[b][c].op = "skip" /\ GuardDiffers(b, c))
      => /\ ret[b][c] = None
         /\ store[b].timer = PreTimer(b, c)
         /\ store[b].history = pre[b][c][1].history

\* a skip returned whose guard matched the stored phase and phaseEndsAt and
\* differed in running only, on a timer that had been started
C11_Witness ==
  \E c \in Conns : \A b \in Backings :
    /\ Done(b, c) /\ frame[b][c].op = "skip" /\ frame[b][c].guard # None
    /\ PreTimer(b, c).running
    /\ frame[b][c].guard[1].expectedPhase = PreTimer(b, c).phase
    /\ frame[b][c].guard[1].expectedPhaseEndsAt = PreTimer(b, c).phaseEndsAt
    /\ ~frame[b][c].guard[1].expectedRunning
    /\ ret[b][c] = None

\* C12: an accepted reset keeps phase and cycleCount and leaves the timer
\* paused, phaseEndsAt null and remainingSecWhenPaused the configured
\* duration of the current phase, whether it was running or paused before.
C12_ResetKeepsPhase ==
  \A b \in Backings, c \in Conns :
    (Done(b, c) /\ frame[b][c].op = "reset" /\ ~Older(b, c))
      => LET p == PreTimer(b, c)
             t == store[b].timer
         IN /\ t.phase = p.phase
            /\ t.cycleCount = p.cycleCount
            /\ ~t.running
            /\ t.phaseEndsAt = Null
            /\ t.remainingSecWhenPaused = Configured(t.phase, store[b].settings)

\* an accepted reset returned on a timer that was running
C12_Witness ==
  \E c \in Conns : \A b \in Backings :
    /\ Done(b, c) /\ frame[b][c].op = "reset" /\ ~Older(b, c)
    /\ PreTimer(b, c).running
    /\ ~store[b].timer.running

\* C13 as stated: whenever the timer is paused, remainingSecWhenPaused lies
\* between 0 and the configured duration of the current phase under the
\* current settings, and it equals that duration right after an accepted
\* reset or skip, across start, pause, reset, skip and settings updates.
C13_RemainingWithinDuration ==
  \A b \in Backings :
    /\ ~store[b].timer.running =>
         /\ store[b].timer.remainingSecWhenPaused >= 0
         /\ store[b].timer.remainingSecWhenPaused
              <= Configured(store[b].timer.phase, store[b].settings)
    /\ \A c \in Conns :
         (Done(b, c) /\ frame[b][c].op \in {"reset", "skip"}
            /\ Entered(b, c) /\ ~Older(b, c))
           => store[b].timer.remainingSecWhenPaused
                = Configured(store[b].timer.phase, store[b].settings)

C15_StaleSettingsNotApplied ==
  \A b \in Backings, c \in Conns :
    (Done(b, c) /\ frame[b][c].op = "settings"
       /\ frame[b][c].timestamp # 0
       /\ frame[b][c].timestamp < PreTimer(b, c).lastUpdatedAt)
      => /\ store[b].settings = pre[b][c][1].settings
         /\ store[b].timer = PreTimer(b, c)

\* the participants stored when the handler of connection c was called
PreParticipants(b, c) == pre[b][c][1].participants

\* the entries stored at the call that carry exactly the name of the join
SameName(b, c) ==
  {i \in 1..Len(PreParticipants(b, c)) :
     PreParticipants(b, c)[i].name = frame[b][c].name}

\* C17: of two joins to the room with the same name, handled one after the
\* other from different connections: with different persistent user ids the
\* first succeeds and the second fails with the name-taken error, leaving
\* the list one longer; with the same persistent user id both succeed and
\* the list ends two longer.
C17_SameNameJoins ==
  \A b \in Backings, c \in Conns :
    (Done(b, c) /\ frame[b][c].op = "join" /\ c \notin Ids(PreParticipants(b, c)))
      => LET p == PreParticipants(b, c)
             f == frame[b][c]
             entry == [id |-> c, uniqueId |-> f.uniqueId, name |-> f.name]
         IN /\ p = <<>> =>
                 /\ ret[b][c] = Some([success |-> TRUE])
                 /\ store[b].participants = <<entry>>
            /\ (\E i \in SameName(b, c) : p[i].uniqueId # f.uniqueId) =>
                 /\ ret[b][c] = Some([success |-> FALSE])
                 /\ f.sent = {<<"NAME_TAKEN", "socket">>}
                 /\ store[b].participants = p
            /\ (SameName(b, c) # {}
                  /\ \A i \in SameName(b, c) : p[i].uniqueId = f.uniqueId) =>
                 /\ ret[b][c] = Some([success |-> TRUE])
                 /\ <<"NAME_TAKEN", "socket">> \notin f.sent
                 /\ store[b].participants = Append(p, entry)

\* the second join, with the name of the first and another persistent user
\* id, has failed and the list holds the first participant only
C17_Witness ==
  \E c \in Conns, b \in deployed :
    /\ Done(b, c) /\ frame[b][c].op = "join"
    /\ Len(PreParticipants(b, c)) = 1
    /\ PreParticipants(b, c)[1].id # c
    /\ PreParticipants(b, c)[1].name = frame[b][c].name
    /\ PreParticipants(b, c)[1].uniqueId # frame[b][c].uniqueId
    /\ ret[b][c] = Some([success |-> FALSE])
    /\ Len(store[b].participants) = 1

\* C18: in every reachable state of the room, whatever the sequence and
\* interleaving of the join, updateName and disconnect handlers and of the
\* stale-participant cleanup, no two stored participants with different
\* persistent user ids have the same display name.
C18_NamesUniqueAmongUsers ==
  \A b \in Backings :
    LET p == store[b].participants
    IN \A i, j \in 1..Len(p) :
         p[i].uniqueId # p[j].uniqueId => p[i].name # p[j].name

\* two users are stored and a rename to a name one of them holds has been
\* refused, while the handler of another connection is in flight
C18_Witness ==
  \E b \in deployed, c, d \in Conns :
    /\ Done(b, c) /\ frame[b][c].op = "rename"
    /\ <<"NAME_TAKEN", "socket">> \in frame[b][c].sent
    /\ pc[b][d] \notin {"idle", "done"}
    /\ \E i, j \in 1..Len(store[b].participants) :
         store[b].participants[i].uniqueId # store[b].participants[j].uniqueId

\* a removeParticipant call of c is in flight on backing b
Removing(b, c) ==
  frame[b][c].op = "remove" /\ pc[b][c] \notin {"idle", "done"}

\* the call of c has returned: its target is not stored, every other
\* participant stored at the call is, and no retry was needed
RemovedOnly(b, c) ==
  LET x == frame[b][c].participantId
  IN /\ x \notin Ids(store[b].participants)
     /\ store[b].participants = Removed(PreParticipants(b, c), x)
     /\ ret[b][c] = Some(store[b].participants)
     /\ frame[b][c].attempt = 0

\* C19: when removeParticipant(roomId, X) is called two or more times at
\* once, then in every interleaving of the calls' store reads and writes each
\* call returns, without using up its retries; X is then absent from the
\* stored participants and every other participant is still stored.
C19_ConcurrentRemovesConverge ==
  /\ [](\A b \in Backings, c \in Conns :
          /\ pc[b][c] \notin {"removeParticipant_sleep", "removeParticipant_final"}
          /\ (Done(b, c) /\ frame[b][c].op = "remove") => RemovedOnly(b, c))
  /\ \A b \in Backings, c \in Conns :
       Removing(b, c) ~> (Done(b, c) /\ frame[b][c].op = "remove")

\* three calls for a stored participant, all made before the first write,
\* have returned and another participant is still stored
C19_Witness ==
  \E b \in deployed :
    /\ \A c \in Conns :
         /\ Done(b, c) /\ frame[b][c].op = "remove"
         /\ Target \in Ids(PreParticipants(b, c))
    /\ Ids(store[b].participants) = {"s2"}

\* the cleanup run by the handler of c on backing b takes a step: its
\* fetchSockets or its saveRoom completes
CleanupStep(b, c) ==
  pc[b][c] \in {"cleanup_fetch", "cleanup_save"} /\ pc'[b][c] # pc[b][c]

\* the stored participants whose socket the registry does not hold connected
Disconnected(participants) ==
  {d \in Ids(participants) : sockets[d] # "connected"}

\* C20: the stale-participant cleanup never removes a stored participant
\* whose connection is in the room's broadcast group or is in the registry
\* and connected; the participants it decides to remove are exactly those of
\* the list it read whose connection is absent from the registry or
\* disconnected; and it broadcasts a presence update only when it removed
\* at least one.
C20_CleanupRemovesOnlyStale ==
  [][\A b \in Backings, c \in Conns :
       CleanupStep(b, c) =>
         LET removed == Ids(store[b].participants) \ Ids(store'[b].participants)
             update == <<"CLEANUP_PARTICIPANTS_UPDATE", "room">>
         IN /\ \A d \in removed :
                 /\ d \notin SocketsInRoom(World(b), sockets)
                 /\ sockets[d] # "connected"
            /\ pc[b][c] = "cleanup_fetch" =>
                 frame'[b][c].stale =
                   Disconnected(RoomOf(b, World(b), c).participants)
            /\ (update \in frame'[b][c].sent /\ update \notin frame[b][c].sent) =>
                 frame[b][c].stale # {}]_vars

\* the gateway handler of a command of c has finished on backing b
Handled(b, c) ==
  Done(b, c) /\ frame[b][c].gate \in {"rejected", "sent"}

AutoSkip(b, c) ==
  frame[b][c].op = "skip" /\ frame[b][c].source = "auto"

\* C21: a TIMER_SKIP with source auto changes the timer only if, at the
\* gateway's check, the timer was running with a phaseEndsAt at most 2000 ms
\* after the server's time, and phase, phaseEndsAt and running flag are still
\* the checked values when the skip is applied; an auto skip that is ignored
\* or refused leaves the stored room unchanged, logs no activity and
\* broadcasts nothing.
C21_AutoSkipOnlyAtPhaseEnd ==
  [][\A b \in Backings, c \in Conns :
       (AutoSkip(b, c) /\ pc'[b][c] # pc[b][c]) =>
         LET f == frame[b][c]
             timer == store[b].timer
         IN /\ store'[b].timer # timer =>
                 /\ f.guard # None
                 /\ f.guard[1].expectedRunning
                 /\ f.guard[1].expectedPhaseEndsAt # Null
                 /\ f.guard[1].expectedPhaseEndsAt - f.checkedAt <= AUTO_SKIP_GRACE_MS
                 /\ timer.phase = f.guard[1].expectedPhase
                 /\ timer.phaseEndsAt = f.guard[1].expectedPhaseEndsAt
                 /\ timer.running = f.guard[1].expectedRunning
            /\ (\/ frame'[b][c].gate \in {"ignored", "dropped"}
                \/ (pc[b][c] = "skipPhase_get" /\ pc'[b][c] = "done")) =>
                 /\ store'[b] = store[b]
                 /\ frame'[b][c].sent = {}]_vars


\* C22: a command of a connection is handled to its end before the handler
\* of the next command of that connection is dispatched or touches the
\* store: the later handler of a connection takes no step while the earlier
\* one has not run to its end
C22_CommandsHandledInTurn ==
  [][\A b \in Backings, c \in Conns :
       behind'[b][c].pc # behind[b][c].pc =>
         Completed(pc[b][c], frame[b][c])]_vars

\* the disconnect handler of connection c is in removeParticipant on b
Leaving(b, c) ==
  /\ frame[b][c].op = "disconnect"
  /\ pc[b][c] \in {"removeParticipant_get", "removeParticipant_verify",
                   "removeParticipant_final"}

\* the step in which removeParticipant returns to the disconnect handler
RemoveReturns(b, c) == Leaving(b, c) /\ pc'[b][c] \in {"log_get", "done"}

\* C23: the disconnect handler of a joined connection runs removeParticipant
\* and broadcasts PARTICIPANTS_UPDATE when it returns; it goes on to log one
\* "leave" entry when its removal took the connection out of the stored
\* list, and logs none when the connection was absent from the list
C23_LeaveLoggedIffRemoved ==
  [][\A b \in Backings, c \in Conns :
       /\ (frame[b][c].op = "disconnect" /\ pc[b][c] = "disconnect_get"
            /\ pc'[b][c] # pc[b][c]) =>
             pc'[b][c] = "removeParticipant_get"
       /\ RemoveReturns(b, c) =>
             /\ <<"PARTICIPANTS_UPDATE", "room">> \in frame'[b][c].sent
             /\ pc[b][c] = "removeParticipant_verify" => pc'[b][c] = "log_get"
             /\ pc[b][c] = "removeParticipant_get" => pc'[b][c] = "done"
       /\ (frame[b][c].op = "disconnect" /\ pc[b][c] = "log_get"
            /\ pc'[b][c] # pc[b][c]) =>
             /\ logs'[b] = logs[b] + 1
             /\ frame[b][c].logType = "leave"]_vars

\* the JOIN_ROOM handler of connection c ends on b with a refusal
Refused(b, c) ==
  /\ frame'[b][c].op = "join"
  /\ pc[b][c] # "done" /\ pc'[b][c] = "done"
  /\ ret'[b][c] = Some([success |-> FALSE])

\* C24: currentRoomId of a connection is set only in its JOIN_ROOM handler
\* after addParticipant has put it on the list; a connection that has not
\* joined and whose JOIN_ROOM is refused (room not found, NAME_TAKEN) is
\* neither on the stored list nor in the group, and the store is changed
\* by no handler of a connection that has not joined, except its JOIN_ROOM
C24_RoomIdOnlyByJoin ==
  [][\A b \in Backings, c \in Conns :
       /\ (session'[b][c].roomId /\ ~session[b][c].roomId) =>
             /\ frame[b][c].op = "join"
             /\ frame'[b][c].sent = {}
             /\ c \in io'[b].rooms
             /\ ExistingSocket(store'[b].participants, c)
       /\ (Refused(b, c) /\ ~session[b][c].roomId) =>
             /\ ~session'[b][c].roomId
             /\ frame'[b][c].sent \in {{<<"ERROR", "socket">>},
                                       {<<"NAME_TAKEN", "socket">>}}
             /\ c \notin io'[b].rooms
             /\ ~ExistingSocket(store'[b].participants, c)
             /\ store'[b] = store[b] /\ stray'[b] = stray[b]
       /\ (pc'[b][c] # pc[b][c] /\ ~session[b][c].roomId
            /\ frame'[b][c].op # "join") =>
             /\ ~session'[b][c].roomId
             /\ store'[b] = store[b] /\ stray'[b] = stray[b]
             /\ io'[b] = io[b]]_vars

\* a JOIN_ROOM has been refused with NAME_TAKEN: the connection has not
\* joined and the name is held by a participant of another connection
C24_Witness ==
  \E b \in deployed, c \in Conns :
    /\ frame[b][c].op = "join" /\ pc[b][c] = "done"
    /\ frame[b][c].sent = {<<"NAME_TAKEN", "socket">>}
    /\ ~session[b][c].roomId
    /\ ~ExistingSocket(store[b].participants, c)
    /\ \E d \in Conns \ {c} : ExistingSocket(store[b].participants, d)

\* C25: an operation of the store called with a room id that has no record
\* returns its sentinel (null, an empty list, a failure result, nothing for
\* addActivity), and the store has no record under that id afterwards and
\* the room of the other id is as it was
C25_UnknownRoomSentinel ==
  [][\A b \in Backings, c \in Conns :
       (pc[b][c] = "unknown_get" /\ pc'[b][c] # pc[b][c]) =>
         /\ pc'[b][c] = "done"
         /\ ret'[b][c] = Sentinel(frame[b][c].op)
         /\ stray'[b] = None
         /\ store'[b] = store[b] /\ logs'[b] = logs[b]]_vars

\* removeParticipant and startTimer have returned [] and null for an unknown
\* id while the room of the known id has been written to
C25_Witness ==
  \E b \in Backings :
    /\ pc[b]["s1"] = "done" /\ frame[b]["s1"].op = "removeParticipant"
    /\ ret[b]["s1"] = Some(<<>>)
    /\ pc[b]["s2"] = "done" /\ frame[b]["s2"].op = "startTimer"
    /\ ret[b]["s2"] = None
    /\ stray[b] = None
    /\ store[b].history # <<>>

\* the timer after the start at 0
StartedAtZero(timer) ==
  /\ timer.running /\ timer.phase = "focus" /\ timer.phaseEndsAt = 1500000
  /\ timer.cycleCount = 0

\* the timer after the pause at 600000
PausedAfterTenMinutes(timer) ==
  /\ ~timer.running /\ timer.phase = "focus"
  /\ timer.remainingSecWhenPaused = 900 /\ timer.cycleCount = 0

\* C26: in a room with focusSec 1500, breakSec 300 and longBreakEvery 4,
\* start at time 0 gives running and phaseEndsAt 1500000; pause at 600000
\* then gives not running and 900 s remaining; a skip without guard then
\* gives phase break, cycleCount 1, 300 s remaining and not running
C26_DefaultScenario ==
  \A b \in Backings, c \in Conns :
    Done(b, c) =>
      LET f == frame[b][c]
          before == PreTimer(b, c)
          timer == store[b].timer
      IN /\ (f.op = "start" /\ f.now = 0
              /\ before = getInitialTimerState(DefaultSettings)) =>
               /\ StartedAtZero(timer)
               /\ ret[b][c] = Some(timer)
         /\ (f.op = "pause" /\ f.now = 600000 /\ StartedAtZero(before)) =>
               /\ PausedAfterTenMinutes(timer)
               /\ ret[b][c] = Some(timer)
         /\ (f.op = "skip" /\ PausedAfterTenMinutes(before)) =>
               /\ timer.phase = "break" /\ timer.cycleCount = 1
               /\ timer.remainingSecWhenPaused = 300 /\ ~timer.running
               /\ ret[b][c] = Some(timer)

\* the skip has returned after the start at 0 and the pause at 600000
C26_Witness ==
  \E b \in Backings :
    /\ Done(b, "s1") /\ frame[b]["s1"].op = "skip"
    /\ PausedAfterTenMinutes(PreTimer(b, "s1"))
    /\ PreTimer(b, "s1").lastUpdatedAt = 600000
    /\ store[b].timer.phase = "break"
    /\ Len(store[b].history) >= 1

\* addParticipant of connection c has read the room on b and returns or
\* goes on to its saveRoom
AddParticipantReads(b, c) ==
  pc[b][c] = "addParticipant_get" /\ pc'[b][c] # pc[b][c]

\* C27: addParticipant for a connection id that is on the list returns
\* success and leaves the stored room as it is (participants, names,
\* history), whatever name and user id the call carries
C27_DuplicateJoinIsIdentity ==
  [][\A b \in Backings, c \in Conns :
       (AddParticipantReads(b, c) /\ c \in Ids(store[b].participants)) =>
         /\ store'[b] = store[b]
         /\ logs'[b] = logs[b]
         /\ frame'[b][c].sent = {}
         /\ pc'[b][c] = "ensureUserTodos_get"]_vars

\* addParticipant has returned success to a connection that is on the list
\* under another name and another user id than the call carries
C27_Witness ==
  \E b \in deployed, c \in Conns :
    /\ frame[b][c].op = "join" /\ pc[b][c] = "ensureUserTodos_get"
    /\ store[b] = pre[b][c][1]
    /\ \E i \in 1..Len(store[b].participants) :
         LET p == store[b].participants[i]
         IN /\ p.id = c
            /\ p.name # frame[b][c].name
            /\ p.uniqueId # frame[b][c].uniqueId

\* the JOIN_ROOM of connection c, handled on b, found c not on the list and
\* its name free: addParticipant added a participant
AddedParticipant(b, c) ==
  LET before == pre[b][c][1].participants
  IN /\ ~ExistingSocket(before, c)
     /\ ~NameTaken(before, frame[b][c].name, frame[b][c].uniqueId)

\* the history with one "join" entry of the user more than at the call
OneJoinEntry(b, c) ==
  LET h == store[b].history
  IN /\ h # <<>>
     /\ h[1].type = "join" /\ h[1].userId = frame[b][c].uniqueId
     /\ Tail(h) = pre[b][c][1].history

\* C28: a join is logged with one "join" entry exactly when addParticipant
\* added a participant whose name is not "Anonymous"; anonymous joins,
\* joins of a connection already on the list and refused joins leave the
\* history as it was
C28_JoinLoggedIffNamedAdded ==
  \A b \in deployed, c \in Conns :
    (Done(b, c) /\ frame[b][c].op = "join") =>
      IF AddedParticipant(b, c) /\ frame[b][c].name # "Anonymous"
        THEN OneJoinEntry(b, c)
        ELSE store[b].history = pre[b][c][1].history

\* an anonymous join has added a participant to a room that has a named one
C28_Witness ==
  \E b \in deployed, c \in Conns :
    /\ Done(b, c) /\ frame[b][c].op = "join"
    /\ AddedParticipant(b, c) /\ frame[b][c].name = "Anonymous"
    /\ Len(store[b].participants) = 2
    /\ Len(store[b].history) = 1

\* an attempt of the removeParticipant call of c has read the room on b
\* and the participant it is to remove is not on the list
AbsentRead(b, c) ==
  /\ frame[b][c].op = "remove"
  /\ pc[b][c] = "removeParticipant_get" /\ pc'[b][c] # pc[b][c]
  /\ frame[b][c].participantId \notin Ids(store[b].participants)

\* C29: removeParticipant for an id that is not on the list returns the
\* list as stored, at once: the stored room (participants, hostId,
\* history) is as it was, and no further attempt is made
C29_RemoveAbsentIsIdentity ==
  [][\A b \in Backings, c \in Conns :
       AbsentRead(b, c) =>
         /\ pc'[b][c] = "done"
         /\ ret'[b][c] = Some(store[b].participants)
         /\ store'[b] = store[b]
         /\ logs'[b] = logs[b]
         /\ frame'[b][c].attempt = frame[b][c].attempt]_vars

\* removeParticipant has returned the list of a room in which the
\* participant was not, while another participant was
C29_Witness ==
  \E b \in deployed, c \in Conns :
    /\ Done(b, c) /\ frame[b][c].op = "remove"
    /\ frame[b][c].participantId \notin Ids(pre[b][c][1].participants)
    /\ store[b].participants # <<>>
    /\ ret[b][c] = Some(store[b].participants)

\* room `after` is room `before` with the name of user uniqueId set to name
\* on the user's participants and todo list, and nothing else changed
RenamedRoom(before, after, uniqueId, name) ==
  /\ Len(after.participants) = Len(before.participants)
  /\ \A i \in 1..Len(before.participants) :
       LET p == before.participants[i]
           q == after.participants[i]
       IN /\ q.id = p.id /\ q.uniqueId = p.uniqueId
          /\ q.name = IF p.uniqueId = uniqueId THEN name ELSE p.name
  /\ \A u \in Users :
       after.userTodos[u] = IF u = uniqueId /\ before.userTodos[u] # ""
                              THEN name ELSE before.userTodos[u]
  /\ after.history = before.history
  /\ after.timer = before.timer /\ after.settings = before.settings
  /\ after.hostId = before.hostId

\* C30: when updateParticipantName has saved, every stored participant of
\* the caller's user and the user's todo list carry the new name and the
\* other participants and the history are as before; when another user
\* holds the name it returns a failure and the stored room is as before
C30_RenameAllOfUser ==
  [][\A b \in Backings, c \in Conns :
       LET f == frame[b][c]
           before == pre[b][c][1]
       IN /\ (f.op = "rename" /\ pc[b][c] = "updateName_save"
               /\ pc'[b][c] # pc[b][c]) =>
                /\ ~NameTaken(before.participants, f.name, f.uniqueId)
                /\ RenamedRoom(before, store'[b], f.uniqueId, f.name)
          /\ (f.op = "rename" /\ pc[b][c] = "updateName_get"
               /\ pc'[b][c] = "done") =>
                /\ NameTaken(before.participants, f.name, f.uniqueId)
                /\ ret'[b][c] = Some([success |-> FALSE])
                /\ store'[b] = before]_vars

\* Ann has changed her name while she had two connections and Bob one:
\* both her entries carry the new name
C30_Witness ==
  \E b \in deployed, c \in Conns :
    /\ frame[b][c].op = "rename" /\ pc[b][c] = "updateName_emit"
    /\ Len(store[b].participants) = 3
    /\ \A i \in 1..3 :
         LET p == store[b].participants[i]
         IN p.uniqueId = frame[b][c].uniqueId =>
              /\ p.name = frame[b][c].name
              /\ pre[b][c][1].participants[i].name # p.name
    /\ store[b].userTodos[frame[b][c].uniqueId] = frame[b][c].name
    /\ frame[b][c].uniqueId = "u1"

\* C31: in every state of a stored room, timer.running is true exactly when
\* timer.phaseEndsAt is not null, so running selects which of phaseEndsAt
\* and remainingSecWhenPaused is in use.
C31_RunningIffDeadline ==
  \A b \in deployed :
    store[b].timer.running <=> store[b].timer.phaseEndsAt # Null

\* an accepted pause returned on a timer that was running with a deadline
C31_Witness ==
  \E c \in Conns : \A b \in deployed :
    /\ Done(b, c) /\ frame[b][c].op = "pause"
    /\ PreTimer(b, c).running /\ PreTimer(b, c).phaseEndsAt # Null
    /\ ~store[b].timer.running /\ store[b].timer.phaseEndsAt = Null
    /\ store[b].timer.lastUpdatedAt = frame[b][c].actionTime

(***************************************************************************)
(* Chat: SEND_MESSAGE and addMessage                                       *)
(***************************************************************************)
\* a chat text: `body` characters other than blanks between `spaces`
\* blanks on either side
Texts ==
  {[spaces |-> s, body |-> n] : s \in {0, 1}, n \in {0, 1}}
    \cup {[spaces |-> 1, body |-> MaxTextLength - 1]}

\* text.length
Length(text) == 2 * text.spaces + text.body

\* text.trim()
Trim(text) == [text EXCEPT !.spaces = 0]

\* !text || text.trim().length === 0, or text.length > 500
Unsendable(text) ==
  \/ Length(text) = 0
  \/ Length(Trim(text)) = 0
  \/ Length(text) > MaxTextLength

\* the ChatMessage the handler builds at server time t
ChatMessage(w, c, text, t) ==
  [id |-> <<c, t>>, senderId |-> c, senderName |-> w.session[c].userName,
   text |-> Trim(text), timestamp |-> t]

\* Push keeping the first MAX_MESSAGES messages
PushKeepsOldest(messages, message) ==
  LET m == Append(messages, message)
  IN IF Len(m) > MAX_MESSAGES THEN SubSeq(m, 1, MAX_MESSAGES) ELSE m

\* room.messages.push(message), cut to the last MAX_MESSAGES
Push(messages, message) ==
  LET m == Append(messages, message)
  IN IF Len(m) > MAX_MESSAGES
       THEN SubSeq(m, Len(m) - MAX_MESSAGES + 1, Len(m))
       ELSE m

\* the handler up to addMessage's getRoom; it returns at once on a text it
\* does not accept
EnterSend(w, c, text, t) ==
  IF Unsendable(text)
    THEN [w EXCEPT !.frame[c] = [NoFrame EXCEPT !.op = "send",
                                               !.gate = "ignored"],
                   !.pre[c] = Some(w.store),
                   !.ret[c] = None,
                   !.pc[c] = "done"]
    ELSE [w EXCEPT !.frame[c] = [NoFrame EXCEPT
                                   !.op = "send",
                                   !.message = Some(ChatMessage(w, c, text, t))],
                   !.pre[c] = Some(w.store),
                   !.ret[c] = None,
                   !.pc[c] = "addMessage_get"]

SEND_MESSAGE(c) ==
  /\ Ready(c)
  /\ \E b \in deployed : session[b][c].roomId
  /\ \E text \in Texts :
       Dispatch([b \in Backings |-> EnterSend(World(b), c, text, now)])

\* getRoom of addMessage, then the code up to its saveRoom
AddMessageGet(b, w, c) ==
  LET pushed == [w.store EXCEPT
                   !.messages = Push(w.store.messages, w.frame[c].message[1])]
  IN [w EXCEPT !.store = IF b = "redis" THEN w.store ELSE pushed,
               !.room[c] = IF b = "redis" THEN Some(pushed) ELSE None,
               !.pc[c] = "addMessage_save"]

addMessageGet(c) ==
  /\ \E b \in Backings : pc[b][c] = "addMessage_get"
  /\ Becomes([b \in Backings |->
               IF pc[b][c] = "addMessage_get"
                 THEN AddMessageGet(b, World(b), c) ELSE World(b)])
  /\ UNCHANGED <<now, callers, budget, sockets>>

\* saveRoom of addMessage completes; addMessage returns the message and the
\* handler sends NEW_MESSAGE to the group
AddMessageSaved(b, w, c) ==
  LET stored == [w EXCEPT !.store = saveRoom(b, w, RoomOf(b, w, c)),
                          !.room[c] = None,
                          !.ret[c] = w.frame[c].message,
                          !.pc[c] = "done"]
  IN Emit(stored, c, "NEW_MESSAGE", "room")

addMessageSaved(c) ==
  /\ \E b \in Backings : pc[b][c] = "addMessage_save"
  /\ Becomes([b \in Backings |->
               IF pc[b][c] = "addMessage_save"
                 THEN AddMessageSaved(b, World(b), c) ELSE World(b)])
  /\ UNCHANGED <<now, callers, budget, sockets>>

\* the activity entries of a room whose history holds k entries: the joins
\* of Ann and Bob and resets of the timer by s1, one each millisecond
EarlierHistory(k) ==
  [i \in 1..k |->
     LET n == k + 1 - i
     IN [id |-> n,
         type |-> IF n <= 2 THEN "join" ELSE "timer_reset",
         userId |-> IF n = 1 THEN "u1" ELSE IF n = 2 THEN "u2" ELSE "s1",
         timestamp |-> n,
         details |-> <<>>]]

\* m chat messages of Bob, one each millisecond
EarlierMessages(m) ==
  [i \in 1..m |->
     [id |-> <<"s2", i>>, senderId |-> "s2", senderName |-> "Bob",
      text |-> [spaces |-> 0, body |-> 1], timestamp |-> i]]

\* Ann and Bob have joined, and the room has seen k activity entries and m
\* chat messages
BusyRoom(settings, k, m) ==
  [JoinedRoom(settings) EXCEPT !.history = EarlierHistory(k),
                               !.messages = EarlierMessages(m)]

\* one deployment in which Ann on s1 and Bob on s2 have joined the room
\* `stored`, `logged` activity entries have been made and the clock shows t;
\* the pages of the connections in `followed` are followed, each showing the
\* room as its ROOM_STATE gave it
JoinedAt(stored, logged, who, calls, t, followed) ==
  /\ deployed \in {{"memory"}, {"redis"}}
  /\ store = [b \in Backings |->
                IF b \in deployed THEN stored ELSE createRoom(stored.settings)]
  /\ sockets = [c \in Conns |-> IF c \in Pair THEN "connected" ELSE "fresh"]
  /\ io = [b \in Backings |->
             IF b \in deployed THEN [rooms |-> Pair] ELSE NoRooms]
  /\ session = [b \in Backings |-> [c \in Conns |->
                  IF b \in deployed /\ c \in Pair
                    THEN [roomId |-> TRUE,
                          userName |-> IF c = "s1" THEN "Ann" ELSE "Bob",
                          uniqueId |-> UserOf[c]]
                    ELSE NoSession]]
  /\ pc = [b \in Backings |-> [c \in Conns |-> "idle"]]
  /\ frame = [b \in Backings |-> [c \in Conns |-> NoFrame]]
  /\ room = [b \in Backings |-> [c \in Conns |-> None]]
  /\ actRoom = [b \in Backings |-> [c \in Conns |-> None]]
  /\ ret = [b \in Backings |-> [c \in Conns |-> None]]
  /\ pre = [b \in Backings |-> [c \in Conns |-> None]]
  /\ behind = [b \in Backings |-> [c \in Conns |-> NoHandler]]
  /\ stray = [b \in Backings |-> None]
  /\ clients = [b \in Backings |-> [c \in Conns |->
                  IF b \in deployed /\ c \in followed
                    THEN Some([timer |-> stored.timer,
                               settings |-> stored.settings,
                               inbox |-> <<>>])
                    ELSE None]]
  /\ logs = [b \in Backings |-> IF b \in deployed THEN logged ELSE 0]
  /\ now = t
  /\ callers = who
  /\ budget = calls

\* the history and the chat of the room are full or one short of full; the
\* clock shows a time after the last earlier message
InitBuffers ==
  \E k \in {MAX_HISTORY - 1, MAX_HISTORY},
     m \in {MAX_MESSAGES - 1, MAX_MESSAGES} :
    JoinedAt(BusyRoom(RoomSettings(2), k, m), k, Pair, MaxBufferEvents,
             MAX_MESSAGES + 1, {})

\* chat messages and timer operations, handled one at a time
NextBuffers ==
  \/ Tick
  \/ \E c \in Conns :
       \/ Quiet /\ SEND_MESSAGE(c)
       \/ Quiet /\ timerUnstamped(c)
       \/ addMessageGet(c) \/ addMessageSaved(c)
       \/ Continue(c)

SpecBuffers == InitBuffers /\ [][NextBuffers]_vars

(***************************************************************************)
(* C32                                                                     *)
(***************************************************************************)
\* newest first: each entry was made after the one that follows it
NewestFirst(history) ==
  \A i \in 1..(Len(history) - 1) :
    /\ history[i].id > history[i + 1].id
    /\ history[i].timestamp >= history[i + 1].timestamp

\* oldest first: no message was made after the one that follows it
OldestFirst(messages) ==
  \A i \in 1..(Len(messages) - 1) :
    messages[i].timestamp <= messages[i + 1].timestamp

\* the entries of a list
Entries(list) == {list[i] : i \in 1..Len(list)}

\* addActivity's write reaches the store of backing b in this step
ActivityWritten(b) ==
  \E c \in Conns :
    \/ b = "memory" /\ pc[b][c] = "addActivity_get"
         /\ pc'[b][c] = "addActivity_save"
    \/ b = "redis" /\ pc[b][c] = "addActivity_save"
         /\ pc'[b][c] # "addActivity_save"

\* addMessage's write reaches the store of backing b in this step
MessageWritten(b) ==
  \E c \in Conns :
    \/ b = "memory" /\ pc[b][c] = "addMessage_get"
         /\ pc'[b][c] = "addMessage_save"
    \/ b = "redis" /\ pc[b][c] = "addMessage_save"
         /\ pc'[b][c] = "done"

\* C32: room.history never holds more than 50 entries and is ordered newest
\* first, room.messages never holds more than 100 entries and is ordered
\* oldest first; an entry written to a full list takes the place of the
\* oldest one, and an entry written to a list that is not full drops none.
C32_BoundedBuffers ==
  [][\A b \in deployed :
       LET h == store[b].history
           m == store[b].messages
           hh == store'[b].history
           mm == store'[b].messages
       IN /\ Len(hh) <= MAX_HISTORY /\ NewestFirst(hh)
          /\ Len(mm) <= MAX_MESSAGES /\ OldestFirst(mm)
          /\ ActivityWritten(b) =>
               /\ hh[1] \notin Entries(h)
               /\ Len(h) < MAX_HISTORY => hh = <<hh[1]>> \o h
               /\ Len(h) = MAX_HISTORY =>
                    hh = <<hh[1]>> \o SubSeq(h, 1, MAX_HISTORY - 1)
               /\ \A gone \in Entries(h) \ Entries(hh), kept \in Entries(hh) :
                    gone.id < kept.id
          /\ MessageWritten(b) =>
               /\ \E c \in Conns : frame[b][c].message = Some(mm[Len(mm)])
               /\ Len(m) < MAX_MESSAGES => mm = Append(m, mm[Len(mm)])
               /\ Len(m) = MAX_MESSAGES =>
                    mm = Append(SubSeq(m, 2, MAX_MESSAGES), mm[Len(mm)])
               /\ \A gone \in Entries(m) \ Entries(mm), kept \in Entries(mm) :
                    gone.timestamp <= kept.timestamp]_vars

\* an activity entry and a chat message have each taken the place of the
\* oldest entry of a full list
C32_Witness ==
  \E b \in deployed :
    LET h == store[b].history
        m == store[b].messages
    IN /\ Len(h) = MAX_HISTORY
       /\ h[1].id = MAX_HISTORY + 1 /\ h[MAX_HISTORY].id = 2
       /\ Len(m) = MAX_MESSAGES
       /\ m[1].timestamp = 2 /\ m[MAX_MESSAGES].timestamp > MAX_MESSAGES

(***************************************************************************)
(* Todos: the TODO_* handlers and the todo operations of the store         *)
(***************************************************************************)
\* TODO_ADD: !text || text.trim().length === 0, or text.length > 200
TodoRefused(text) ==
  \/ Length(text) = 0
  \/ Length(Trim(text)) = 0
  \/ Length(text) > MaxTodoLength

\* addTodo: newTodo, made at server time t
NewTodo(userId, text, t) ==
  [id |-> <<userId, t>>, text |-> Trim(text), completed |-> FALSE,
   createdAt |-> t]

\* the ids of the todos of a list
IdsOf(todos) == {todos[i].id : i \in 1..Len(todos)}

\* the index of todos.find(t => t.id === todoId), 0 when there is none
Find(todos, todoId) ==
  IF todoId \notin IdsOf(todos) THEN 0
  ELSE CHOOSE i \in 1..Len(todos) :
         /\ todos[i].id = todoId
         /\ \A j \in 1..(i - 1) : todos[j].id # todoId

\* updateTodo's assignments to the todo found
Updated(todo, updates) ==
  [todo EXCEPT
     !.text = IF updates.text # None THEN Trim(updates.text[1]) ELSE @,
     !.completed = IF updates.completed # None THEN updates.completed[1] ELSE @]

\* updateTodo: the user's list after the update of the todo found
AfterUpdate(list, todoId, updates) ==
  LET i == Find(list.todos, todoId)
  IN [list EXCEPT
        !.todos[i] = Updated(list.todos[i], updates),
        !.activeTodoId =
           IF updates.completed = Some(TRUE) /\ list.activeTodoId = Some(todoId)
             THEN None ELSE @]

\* todos.filter(t => t.id !== todoId)
WithoutTodo(todos, todoId) ==
  LET Other(t) == t.id # todoId IN SelectSeq(todos, Other)

\* deleteTodo: the user's list after the deletion
AfterDelete(list, todoId) ==
  [list EXCEPT
     !.todos = WithoutTodo(list.todos, todoId),
     !.activeTodoId = IF list.activeTodoId = Some(todoId) THEN None ELSE @]

\* the keys of new Map(todos.map(t => [t.id, t])), in insertion order
RECURSIVE Keys(_, _)
Keys(todos, seen) ==
  IF todos = <<>> THEN <<>>
  ELSE IF Head(todos).id \in seen THEN Keys(Tail(todos), seen)
  ELSE <<Head(todos).id>> \o Keys(Tail(todos), seen \cup {Head(todos).id})

\* todosMap.get(id): the last todo of the list with that id
Got(todos, id) ==
  todos[CHOOSE i \in 1..Len(todos) :
          /\ todos[i].id = id
          /\ \A j \in (i + 1)..Len(todos) : todos[j].id # id]

\* the loop over todoIds: each todo found in the map is pushed and deleted
\* from the map
RECURSIVE Picked(_, _, _)
Picked(todos, todoIds, deleted) ==
  IF todoIds = <<>> THEN <<>>
  ELSE IF Head(todoIds) \in IdsOf(todos) \ deleted
    THEN <<Got(todos, Head(todoIds))>>
           \o Picked(todos, Tail(todoIds), deleted \cup {Head(todoIds)})
  ELSE Picked(todos, Tail(todoIds), deleted)

\* reorderTodos: reordered
Reordered(todos, todoIds) ==
  LET asked == {todoIds[i] : i \in 1..Len(todoIds)}
      Missed(id) == id \notin asked
      rest == SelectSeq(Keys(todos, {}), Missed)
  IN Picked(todos, todoIds, {}) \o [i \in 1..Len(rest) |-> Got(todos, rest[i])]

\* the handler up to the getRoom of the store operation; TODO_ADD returns
\* at once on a text it does not accept, TODO_UPDATE and TODO_DELETE without
\* todoId
EnterTodo(w, c, op, payload) ==
  IF \/ w.session[c].uniqueId = ""
     \/ op = "addTodo" /\ TodoRefused(payload.text)
     \/ op \in {"updateTodo", "deleteTodo"} /\ payload.todoId = None
    THEN [w EXCEPT !.frame[c] = [NoFrame EXCEPT !.op = op, !.gate = "ignored"],
                   !.pre[c] = Some(w.store),
                   !.ret[c] = None,
                   !.pc[c] = "done"]
    ELSE [w EXCEPT !.frame[c] = [NoFrame EXCEPT
                                   !.op = op,
                                   !.name = w.session[c].userName,
                                   !.uniqueId = w.session[c].uniqueId,
                                   !.todo = Some(payload)],
                   !.pre[c] = Some(w.store),
                   !.ret[c] = None,
                   !.pc[c] = "todo_get"]

\* the todo ids a client of user u sends: null or the id of a todo on the
\* stored list
TodoIds(u) ==
  {None} \cup UNION {{Some(id) : id \in IdsOf(store[b].lists[u].todos)}
                       : b \in deployed}

TODO_ADD(c) ==
  /\ Ready(c)
  /\ \E b \in deployed : session[b][c].roomId
  /\ \E text \in Texts :
       Dispatch([b \in Backings |->
                  EnterTodo(World(b), c, "addTodo", [text |-> text])])

\* the updates a TODO_UPDATE payload carries: completed, or a new text
TodoUpdates ==
  {[text |-> None, completed |-> Some(TRUE)],
   [text |-> None, completed |-> Some(FALSE)],
   [text |-> Some([spaces |-> 1, body |-> 2]), completed |-> None]}

TODO_UPDATE(c) ==
  /\ Ready(c)
  /\ \E b \in deployed : session[b][c].roomId
  /\ \E todoId \in TodoIds(UserOf[c]), updates \in TodoUpdates :
       Dispatch([b \in Backings |->
                  EnterTodo(World(b), c, "updateTodo",
                            [todoId |-> todoId, updates |-> updates])])

TODO_DELETE(c) ==
  /\ Ready(c)
  /\ \E b \in deployed : session[b][c].roomId
  /\ \E todoId \in TodoIds(UserOf[c]) :
       Dispatch([b \in Backings |->
                  EnterTodo(World(b), c, "deleteTodo", [todoId |-> todoId])])

TODO_SET_ACTIVE(c) ==
  /\ Ready(c)
  /\ \E b \in deployed : session[b][c].roomId
  /\ \E todoId \in TodoIds(UserOf[c]) :
       Dispatch([b \in Backings |->
                  EnterTodo(World(b), c, "setActiveTodo", [todoId |-> todoId])])

\* the orders a client of user u asks for: the stored list reversed, or no
\* id at all
Orders(u) ==
  UNION {LET todos == store[b].lists[u].todos
         IN {<<>>, [i \in 1..Len(todos) |-> todos[Len(todos) + 1 - i].id]}
           : b \in deployed}

TODO_REORDER(c) ==
  /\ Ready(c)
  /\ \E b \in deployed : session[b][c].roomId
  /\ \E todoIds \in Orders(UserOf[c]) :
       Dispatch([b \in Backings |->
                  EnterTodo(World(b), c, "reorderTodos", [todoIds |-> todoIds])])

\* the operation returns null without a write
TodoReturnsNull(f, r) ==
  \/ f.op # "addTodo" /\ r.userTodos[f.uniqueId] = ""
  \/ f.op = "addTodo" /\ Len(r.lists[f.uniqueId].todos) >= MAX_TODOS_PER_USER
  \/ f.op = "updateTodo" /\ Find(r.lists[f.uniqueId].todos, f.todo[1].todoId[1]) = 0

\* the room as the operation leaves it before its saveRoom
TodoAssigned(f, r, t) ==
  LET u == f.uniqueId
      p == f.todo[1]
      list == r.lists[u]
  IN CASE f.op = "addTodo" ->
            [r EXCEPT !.lists[u].todos = Append(@, NewTodo(u, p.text, t)),
                      !.userTodos[u] = f.name]
       [] f.op = "updateTodo" ->
            [r EXCEPT !.lists[u] = AfterUpdate(list, p.todoId[1], p.updates)]
       [] f.op = "deleteTodo" ->
            [r EXCEPT !.lists[u] = AfterDelete(list, p.todoId[1])]
       [] f.op = "setActiveTodo" ->
            [r EXCEPT !.lists[u].activeTodoId = p.todoId]
       [] f.op = "reorderTodos" ->
            [r EXCEPT !.lists[u].todos = Reordered(list.todos, p.todoIds)]

\* getRoom of the todo operation, then the code up to its saveRoom
TodoGet(b, w, c, t) ==
  IF TodoReturnsNull(w.frame[c], w.store)
    THEN [w EXCEPT !.ret[c] = None, !.pc[c] = "done"]
    ELSE LET assigned == TodoAssigned(w.frame[c], w.store, t)
         IN [w EXCEPT !.store = IF b = "redis" THEN w.store ELSE assigned,
                      !.room[c] = IF b = "redis" THEN Some(assigned) ELSE None,
                      !.pc[c] = "todo_save"]

todoGet(c) ==
  /\ \E b \in Backings : pc[b][c] = "todo_get"
  /\ Becomes([b \in Backings |->
               IF pc[b][c] = "todo_get"
                 THEN TodoGet(b, World(b), c, now) ELSE World(b)])
  /\ UNCHANGED <<now, callers, budget, sockets>>

\* saveRoom of the todo operation completes; it returns room.userTodos and
\* the handler sends TODOS_UPDATE to the group
TodoSaved(b, w, c) ==
  LET r == RoomOf(b, w, c)
      stored == [w EXCEPT !.store = saveRoom(b, w, r),
                          !.room[c] = None,
                          !.ret[c] = Some([userTodos |-> r.userTodos,
                                           lists |-> r.lists]),
                          !.pc[c] = "done"]
  IN Emit(stored, c, "TODOS_UPDATE", "room")

todoSaved(c) ==
  /\ \E b \in Backings : pc[b][c] = "todo_save"
  /\ Becomes([b \in Backings |->
               IF pc[b][c] = "todo_save"
                 THEN TodoSaved(b, World(b), c) ELSE World(b)])
  /\ UNCHANGED <<now, callers, budget, sockets>>

\* Ann has joined on s1 and Bob on s2; Ann's client sends todo commands,
\* handled one at a time
InitTodos ==
  JoinedAt(JoinedRoom(RoomSettings(2)), 2, {"s1"}, MaxTodoEvents, 1, {})

NextTodos ==
  \/ Tick
  \/ \E c \in Conns :
       \/ Quiet /\ TODO_ADD(c)
       \/ Quiet /\ TODO_UPDATE(c)
       \/ Quiet /\ TODO_DELETE(c)
       \/ Quiet /\ TODO_SET_ACTIVE(c)
       \/ Quiet /\ TODO_REORDER(c)
       \/ todoGet(c) \/ todoSaved(c)
       \/ returned(c)

SpecTodos == InitTodos /\ [][NextTodos]_vars

(***************************************************************************)
(* C33                                                                     *)
(***************************************************************************)
\* activeTodoId is null or the id of a todo of the list that is not completed
ActiveIsOpen(list) ==
  \/ list.activeTodoId = None
  \/ \E i \in 1..Len(list.todos) :
       /\ list.todos[i].id = list.activeTodoId[1]
       /\ ~list.todos[i].completed

\* C33 as stated: in every state, each user's activeTodoId is null or the
\* id of a todo that is on that user's list and is not completed.
C33_ActiveTodoIsOpen ==
  \A b \in deployed, u \in Users : ActiveIsOpen(store[b].lists[u])

(***************************************************************************)
(* The client: useTimer's local room, its actions and its event handlers   *)
(***************************************************************************)
\* actions.start's optimistic update
StartedLocally(timer, timestamp) ==
  IF timer.running THEN timer
  ELSE [timer EXCEPT
          !.running = TRUE,
          !.phaseEndsAt = timestamp + timer.remainingSecWhenPaused * MsPerSec,
          !.lastUpdatedAt = timestamp]

\* actions.pause's optimistic update
PausedLocally(timer, timestamp) ==
  IF ~timer.running \/ timer.phaseEndsAt = Null THEN timer
  ELSE [timer EXCEPT
          !.running = FALSE,
          !.phaseEndsAt = Null,
          !.remainingSecWhenPaused = RemainingSec(timer.phaseEndsAt, timestamp),
          !.lastUpdatedAt = timestamp]

\* prev.timer.lastUpdatedAt && timer.lastUpdatedAt < prev.timer.lastUpdatedAt
IgnoredByClient(prev, timer) ==
  prev.timer.lastUpdatedAt # 0 /\ timer.lastUpdatedAt < prev.timer.lastUpdatedAt

\* handleTimerUpdate
HandleTimerUpdate(prev, payload) ==
  IF IgnoredByClient(prev, payload.timer) THEN prev
  ELSE [prev EXCEPT !.timer = payload.timer]

\* handleRoomState on a page that has a room: a state older than the local
\* timer is taken without its timer and settings
HandleRoomState(prev, state) ==
  IF IgnoredByClient(prev, state.timer) THEN prev
  ELSE [prev EXCEPT !.timer = state.timer, !.settings = state.settings]

\* the page of connection c after the first event on its way has arrived
Arrived(page) ==
  LET e == Head(page.inbox)
      rest == [page EXCEPT !.inbox = Tail(page.inbox)]
  IN CASE e.event = "TIMER_UPDATE" -> HandleTimerUpdate(rest, e.payload)
       [] e.event = "ROOM_STATE" -> HandleRoomState(rest, e.payload)

\* an event arrives at the page of connection c
receive(c) ==
  /\ \E b \in deployed : clients[b][c] # None /\ clients[b][c][1].inbox # <<>>
  /\ Becomes([b \in Backings |->
               IF clients[b][c] # None /\ clients[b][c][1].inbox # <<>>
                 THEN [World(b) EXCEPT !.clients[c] = Some(Arrived(clients[b][c][1]))]
                 ELSE World(b)])
  /\ UNCHANGED <<now, callers, budget, sockets>>

\* Date.now() of a client when the server clock shows t: the client's clock
\* is right, behind or ahead
ClientTimes(t) == Timestamps(t) \ {0}

\* the page of connection c after the optimistic update of a command
Clicked(w, c, op, timestamp) ==
  IF w.clients[c] = None THEN w
  ELSE [w EXCEPT !.clients[c] =
          Some([w.clients[c][1] EXCEPT
                  !.timer = IF op = "start"
                              THEN StartedLocally(@, timestamp)
                              ELSE PausedLocally(@, timestamp)])]

\* actions.start: the optimistic update, then TIMER_START with the client's
\* timestamp reaches the gateway
start(c) ==
  /\ Ready(c)
  /\ \E b \in deployed : session[b][c].roomId /\ clients[b][c] # None
  /\ \E timestamp \in ClientTimes(now) :
       Dispatch([b \in Backings |->
                  EnterGate(Clicked(World(b), c, "start", timestamp), c,
                            "start", timestamp, None)])

\* actions.pause: the optimistic update, then TIMER_PAUSE with the client's
\* timestamp reaches the gateway
pause(c) ==
  /\ Ready(c)
  /\ \E b \in deployed : session[b][c].roomId /\ clients[b][c] # None
  /\ \E timestamp \in ClientTimes(now) :
       Dispatch([b \in Backings |->
                  EnterGate(Clicked(World(b), c, "pause", timestamp), c,
                            "pause", timestamp, None)])

\* Ann and Bob have joined a room in collab or in host mode and their pages
\* show the stored room; they start and pause the timer while the clock
\* advances (one command is handled at a time), and the events of the
\* gateway reach their pages
InitSync ==
  \E mode \in {"collab", "host"} :
    JoinedAt(JoinedRoom([RoomSettings(2) EXCEPT !.mode = mode]), 2, Pair,
             MaxSyncEvents, 1, Pair)

NextSync ==
  \/ Tick
  \/ \E c \in Conns :
       \/ Quiet /\ start(c)
       \/ Quiet /\ pause(c)
       \/ receive(c)
       \/ gateGet(c) \/ gateEmit(c) \/ gateState(c)
       \/ addActivityGet(c) \/ afterActivity(c) \/ saved(c)
       \/ returned(c)

SpecSync == InitSync /\ [][NextSync]_vars

(***************************************************************************)
(* C34                                                                     *)
(***************************************************************************)
\* every command has been handled to its end and every event the gateway
\* sent has arrived
Settled(b) ==
  /\ \A c \in Conns : Completed(pc[b][c], frame[b][c])
  /\ \A c \in Conns : clients[b][c] # None => clients[b][c][1].inbox = <<>>

\* C34 as stated: once every command has been handled and every broadcast
\* has arrived, the timer on the page of every joined client equals the
\* stored timer, also after a command of that client was rejected in host
\* mode or dropped as stale after its optimistic update.
C34_ClientsConverge ==
  \A b \in deployed :
    Settled(b) =>
      \A c \in Conns :
        (clients[b][c] # None /\ session[b][c].roomId)
          => clients[b][c][1].timer = store[b].timer

(***************************************************************************)
(* C35                                                                     *)
(***************************************************************************)
\* Ann and Bob have joined; their TIMER_START, SEND_MESSAGE and TODO_ADD
\* commands are handled with the handlers of the two connections
\* interleaving at their awaits
InitMixed ==
  JoinedAt(JoinedRoom(RoomSettings(2)), 2, Pair, MaxMixedEvents, 1, {})

NextMixed ==
  \/ \E c \in Conns :
       \/ TIMER_START(c) /\ Unstamped(c)
       \/ SEND_MESSAGE(c)
       \/ TODO_ADD(c)
       \/ gateGet(c) \/ gateEmit(c) \/ gateState(c)
       \/ addActivityGet(c) \/ afterActivity(c) \/ saved(c)
       \/ addMessageGet(c) \/ addMessageSaved(c)
       \/ todoGet(c) \/ todoSaved(c)
       \/ returned(c)

SpecMixed == InitMixed /\ [][NextMixed]_vars

\* the step is one of addMessage or of a todo operation on backing b
ChatOrTodoStep(b) ==
  \E c \in Conns :
    /\ pc[b][c] \in {"addMessage_get", "addMessage_save", "todo_get", "todo_save"}
    /\ pc'[b][c] # pc[b][c]

\* C35 as stated, for chat and todo commands: no step of addMessage or of a
\* todo operation changes the stored timer or the stored settings, also
\* when a timer command is handled between its read and its write.
C35_ChatAndTodosKeepTimer ==
  [][\A b \in deployed :
       ChatOrTodoStep(b) => /\ store'[b].timer = store[b].timer
                            /\ store'[b].settings = store[b].settings]_vars

(***************************************************************************)
(* C36                                                                     *)
(***************************************************************************)
\* C36 as stated: whenever a stored room is in host mode and has a
\* participant, room.hostId is the connection id of a stored participant.
C36_HostIsParticipant ==
  \A b \in deployed :
    (store[b].settings.mode = "host" /\ Len(store[b].participants) > 0)
      => \E i \in 1..Len(store[b].participants) :
           store[b].participants[i].id = store[b].hostId

(***************************************************************************)
(* C37                                                                     *)
(***************************************************************************)
\* the timer has never been started and no handler is in flight
FirstStart ==
  Startable /\ \A b \in deployed : store[b].timer.lastUpdatedAt = 0

\* Ann and Bob have joined a room with a focus phase of 3 s; one of them
\* starts the timer once, and their pages send auto skips for the end of the
\* phase, whose handlers interleave while the clock advances
InitExpiry ==
  StartedJoined({[RoomSettings(2) EXCEPT !.focusSec = 3]}, Pair,
                MaxExpiryEvents)

NextExpiry ==
  \/ Tick
  \/ \E c \in Conns :
       \/ FirstStart /\ TIMER_START(c) /\ Unstamped(c)
       \/ TIMER_SKIP(c) /\ Unstamped(c) /\ Auto(c)
       \/ ContinueAuto(c)

SpecExpiry == InitExpiry /\ [][NextExpiry]_vars

\* no handler is in flight on backing b
AllComplete(b) == \A c \in Conns : Completed(pc[b][c], frame[b][c])

\* the handler of connection c is that of an auto skip which skipPhase
\* applied and which has run to its end
AppliedAutoSkip(b, c) ==
  /\ Done(b, c) /\ AutoSkip(b, c)
  /\ Completed(pc[b][c], frame[b][c])
  /\ ret[b][c] # None

C38_StoredStampNotAhead ==
  \A b \in deployed :
    /\ store[b].timer.lastUpdatedAt <= now
    /\ \A c \in Conns :
         (/\ frame[b][c].timestamp = 0
          /\ frame[b][c].actionTime # 0
          /\ room[b][c] # None) =>
           ~IsStale(room[b][c][1].timer, frame[b][c].actionTime)

(***************************************************************************)
(* C39                                                                     *)
(***************************************************************************)
\* C39: once the disconnect handler of a connection that had joined the
\* room has run to its end, the connection is not on the stored participant
\* list, whatever handlers of other connections interleave with it.
C39_DisconnectedStaysRemoved ==
  \A b \in deployed, c \in Conns :
    (/\ sockets[c] = "gone"
     /\ Done(b, c)
     /\ frame[b][c].op = "disconnect") =>
      c \notin Ids(store[b].participants)

(***************************************************************************)
(* C40                                                                     *)
(***************************************************************************)
\* Ann and Bob have joined a collab room with a focus phase of 2 s; they
\* start and pause the timer and send UPDATE_SETTINGS, one event at a time,
\* while the clock advances
InitKeep ==
  StartedJoined({[RoomSettings(2) EXCEPT !.focusSec = 2]}, Pair, MaxKeepEvents)

NextKeep ==
  \/ Tick
  \/ \E c \in Conns :
       \/ Quiet /\ TIMER_START(c) /\ Unstamped(c)
       \/ Quiet /\ TIMER_PAUSE(c) /\ Unstamped(c)
       \/ Quiet /\ UPDATE_SETTINGS(c)
       \/ gateGet(c) \/ gateEmit(c) \/ gateState(c)
       \/ addActivityGet(c) \/ afterActivity(c) \/ saved(c)
       \/ returned(c)

SpecKeep == InitKeep /\ [][NextKeep]_vars

\* the UPDATE_SETTINGS handler of c takes a step on backing b
SettingsStep(b, c) ==
  frame'[b][c].op = "settings" /\ pc'[b][c] # pc[b][c]

\* C40: a step of an UPDATE_SETTINGS handler taken while the stored timer is
\* paused, after which the duration of the timer's phase is what it was
\* before, leaves the stored remainingSecWhenPaused unchanged.
C40_PausedCountdownKept ==
  [][\A b \in deployed, c \in Conns :
       LET timer == store[b].timer
       IN (/\ SettingsStep(b, c)
           /\ ~timer.running
           /\ getPhaseDuration(timer.phase, store'[b].settings) =
                getPhaseDuration(timer.phase, store[b].settings)) =>
            store'[b].timer.remainingSecWhenPaused =
              timer.remainingSecWhenPaused]_vars

====
